---- MODULE Spec2Model ----
(***************************************************************************)
(* Ingestion pipeline of lead2lead: scripts/cnpj_ingest_duckdb_v2.py (and  *)
(* the overlapping scripts/cnpj_ingest_duckdb.py, whose main,              *)
(* process_one_zip and download_file are line-for-line the same control    *)
(* flow).  One run of main lists the remote archives, then processes them  *)
(* one at a time: skip if the Parquet exists, fetch (with integrity check  *)
(* of an existing zip), unzip, convert in batches, clean up.  The file     *)
(* system persists from one run to the next; the process can be killed at  *)
(* any step and an archive on disk can be damaged between runs.            *)
(*                                                                         *)
(* Functions whose result does not depend on the run (list_zip_links,      *)
(* unzip_single_csv, the schema resolution of csv_to_parquet, and unique   *)
(* of scripts/renomear_colunas.py) are also called on their own, on every  *)
(* input of a bounded set: args holds the call, ret its outcome.           *)
(***************************************************************************)
EXTENDS Integers, Sequences, FiniteSets, TLC

\* ------------------------------------------------------------------ bounds
NumArchives == 2   \* archives in the remote listing
StreamLen == 2     \* bytes (= chunks) of each remote archive
MaxBatches == 2    \* row batches of the largest extracted text
MaxRuns == 2       \* runs of main over the same directories
MaxFaults == 2     \* failures the environment injects (errors, kills, damage)
MaxName == 2       \* distinct letters of file names in a listing page
MaxLinks == 3      \* href attributes in a listing page
MaxMembers == 2    \* members of an archive
MaxDepth == 2      \* directories a member name is nested in
MaxCols == 3       \* columns of a text that matches no fixed list
MaxList == 3       \* names in a list given to unique
MaxRows == 2       \* lines of a text after its first line
MaxFileLen == 3    \* bytes of a text given to ensure_utf8
SampleLen == 2     \* bytes of the sample ensure_utf8 decodes (1_000_000)
MaxPages == 3      \* pages the search API can be asked for

Archives == 1..NumArchives

\* the remote byte stream of archive a
RemoteBytes(a) == [i \in 1..StreamLen |-> 10 * a + i]

\* row batches pd.read_csv yields for the text of archive a (the first
\* archive is the largest)
CsvBatches(a) == IF MaxBatches - (a - 1) > 0 THEN MaxBatches - (a - 1) ELSE 1

\* ------------------------------------------------------------------ files
NoFile == [exists |-> FALSE, bytes |-> <<>>]
File(b) == [exists |-> TRUE, bytes |-> b]

NoParquet == [exists |-> FALSE, rows |-> 0, closed |-> FALSE]

\* a Parquet artifact holding every batch of the source, footer written
IsComplete(a, p) == p.exists /\ p.closed /\ p.rows = CsvBatches(a)

VARIABLES
  run,          \* number of the current run of main
  pc,           \* position of main: idle, list, loop, finished, exited,
                \* aborted (list_zip_links raised), crashed (another
                \* exception left main), killed
  zips,         \* main's list of archives to process
  idx,          \* main's loop index into zips (1-based)
  ppc,          \* position inside process_one_zip for zips[idx]
  status,       \* per archive, outcome in this run: Pending/Skipped/Done/Failed
  attempted,    \* archives process_one_zip was called on in this run, in order
  netReqs,      \* requests.get calls issued in this run
  prevAllDone,  \* the previous run finished with every archive Done
  rangeOk,      \* the remote server honours Range requests
  keep_zip,     \* --keep-zip
  keep_csv,     \* --keep-csv
  filter,       \* --filter: the characters of the pattern, <<>> when not given
  limit,        \* --limit
  zipFile,      \* work_dir/zips/<name>.zip per archive
  partFile,     \* work_dir/zips/<name>.zip.part per archive
  csvFile,      \* extracted text of the archive exists in work_dir/csv_tmp
  parquetFile,  \* out_dir/<stem>.parquet per archive
  downloaded,   \* download_file's local: size of .part when it was called
  body,         \* bytes of the current response not yet written
  faults,       \* failures injected by the environment so far
  args,         \* arguments of the one function called on its own
  ret           \* what that call returned or raised

vars == <<run, pc, zips, idx, ppc, status, attempted, netReqs, prevAllDone,
          rangeOk, keep_zip, keep_csv, filter, limit, zipFile, partFile, csvFile,
          parquetFile, downloaded, body, faults, args, ret>>

config == <<rangeOk, keep_zip, keep_csv, filter, limit>>
call == <<args, ret>>
frame == <<config, call>>
fs == <<zipFile, partFile, csvFile, parquetFile>>
pipeline == <<run, pc, zips, idx, ppc, status, attempted, netReqs, prevAllDone,
              config, fs, downloaded, body, faults>>
ctl == <<run, pc, zips, prevAllDone>>

Cur == zips[idx]

\* no run yet, empty directories
Fresh ==
  /\ run = 0
  /\ pc = "idle"
  /\ zips = <<>>
  /\ idx = 1
  /\ ppc = "none"
  /\ status = [a \in Archives |-> "Pending"]
  /\ attempted = <<>>
  /\ netReqs = 0
  /\ prevAllDone = FALSE
  /\ zipFile = [a \in Archives |-> NoFile]
  /\ partFile = [a \in Archives |-> NoFile]
  /\ csvFile = [a \in Archives |-> FALSE]
  /\ parquetFile = [a \in Archives |-> NoParquet]
  /\ downloaded = 0
  /\ body = <<>>
  /\ faults = 0

\* no function is called on its own
NoCall == [fn |-> "none"]
Pending == [state |-> "pending"]
Returned(v) == [state |-> "returned", value |-> v]
Raised(e) == [state |-> "raised", error |-> e]
MainOnly == args = NoCall /\ ret = Pending

\* runs without --filter and --limit, any server, any --keep flags
Init ==
  /\ Fresh
  /\ MainOnly
  /\ rangeOk \in BOOLEAN
  /\ keep_zip \in BOOLEAN
  /\ keep_csv \in BOOLEAN
  /\ filter = <<>>
  /\ limit = 0

\* the environment injects one more failure
Fault == faults < MaxFaults /\ faults' = faults + 1


\* ---------------------------------------------------------- remote server
\* headers of download_file: a Range offset only when .part is non-empty
RangeHeaderOffByOne(n) == IF n > 0 THEN <<n - 1>> ELSE <<>>
RangeHeader(n) == IF n > 0 THEN <<n>> ELSE <<>>

\* the server's answer to GET with headers h: 200 with the whole stream when
\* no Range is sent or the server ignores it, 206 with the tail from the
\* offset, 416 when the offset is at or past the end of the stream
Respond(a, h) ==
  IF h = <<>> \/ ~rangeOk
  THEN [code |-> 200, body |-> RemoteBytes(a)]
  ELSE IF h[1] < StreamLen
       THEN [code |-> 206, body |-> SubSeq(RemoteBytes(a), h[1] + 1, StreamLen)]
       ELSE [code |-> 416, body |-> <<>>]

\* ------------------------------------------------------ archive integrity
DamageKinds == {"crc", "zstream", "dir"}

\* one damaged byte: in the member's stored data (CRC mismatch), in the
\* member's deflate stream, or in the central directory at the end
Damage(b, kind) ==
  CASE kind = "crc" -> [b EXCEPT ![1] = -1]
    [] kind = "zstream" -> [b EXCEPT ![1] = -2]
    [] kind = "dir" -> [b EXCEPT ![Len(b)] = -3]

Has(b, v) == \E i \in 1..Len(b) : b[i] = v

\* what "with zipfile.ZipFile(zip_path) as z: bad = z.testzip()" does on the
\* bytes b of archive a: ZipFile() raises BadZipFile when the directory at
\* the end is unreadable; testzip returns the member name on a CRC mismatch
\* and lets the decompressor's own error through on a broken deflate
\* stream; a truncated file has no directory; data in front of a whole
\* archive is tolerated
Integrity(a, b) ==
  IF Has(b, -3) \/ Len(b) < StreamLen THEN "BadZipFile"
  ELSE IF Has(b, -2) THEN "error"
  ELSE IF Has(b, -1) THEN "bad_member"
  ELSE "ok"

\* ------------------------------------------------------------------- main
\* characters are numbers.  The base URL is made of a character that occurs
\* in no archive name; the name of archive a is the one character a; an
\* unbalanced "(" occurs in no URL
BaseUrl == <<0>>
ArchiveName(a) == <<a>>
OpenParen == NumArchives + 1

\* urljoin(base_url, href) of a relative href
Url(a) == BaseUrl \o ArchiveName(a)

\* what list_zip_links returns: the archives in ascending order of their URL
Listing == [i \in 1..NumArchives |-> i]

\* values of --filter: none, one literal character of a URL, or a pattern
\* that does not compile
Filters == {<<>>} \cup {<<c>> : c \in 0..NumArchives} \cup {<<OpenParen>>}

\* values of --limit
Limits == (0 - 1)..NumArchives

\* re.compile accepts the pattern
Compiles(f) == \A i \in 1..Len(f) : f[i] # OpenParen

\* re.search(f, s): the literal f occurs somewhere in s
Search(f, s) ==
  \E i \in 0..(Len(s) - Len(f)) : SubSeq(s, i + 1, i + Len(f)) = f

\* "if args.filter: zips = [z for z in zips if re.search(args.filter, z)]"
FilterZips(zs, f) ==
  IF f = <<>> THEN zs ELSE SelectSeq(zs, LAMBDA a : Search(f, Url(a)))

\* "if args.limit > 0: zips = zips[:args.limit]"
LimitZips(zs, n) ==
  IF n > 0 THEN SubSeq(zs, 1, IF n < Len(zs) THEN n ELSE Len(zs)) ELSE zs

\* the run that just ended finished with every archive Done (skipped or
\* converted); between runs the flag is kept
LastRunAllDone ==
  \/ pc = "finished" /\ \A a \in Archives : status[a] \in {"Done", "Skipped"}
  \/ pc = "idle" /\ prevAllDone

\* the memory of a process that has exited
Exited ==
  /\ zips' = <<>>
  /\ idx' = 1
  /\ ppc' = "none"
  /\ status' = [a \in Archives |-> "Pending"]
  /\ attempted' = <<>>
  /\ netReqs' = 0
  /\ downloaded' = 0
  /\ body' = <<>>

StartRun ==
  /\ pc \in {"idle", "finished", "exited", "aborted", "crashed", "killed"}
  /\ run < MaxRuns
  /\ run' = run + 1
  /\ pc' = "list"
  /\ zips' = <<>>
  /\ idx' = 1
  /\ ppc' = "none"
  /\ status' = [a \in Archives |-> "Pending"]
  /\ attempted' = <<>>
  /\ netReqs' = 0
  /\ prevAllDone' = LastRunAllDone
  /\ downloaded' = 0
  /\ body' = <<>>
  /\ UNCHANGED <<frame, fs>>
  /\ UNCHANGED faults

\* one of the three ensure_dir calls at the start of main raises
SetupFail ==
  /\ pc = "list"
  /\ pc' = "crashed"
  /\ UNCHANGED <<run, zips, idx, ppc, status, attempted, netReqs, prevAllDone,
                 frame, fs, downloaded, body>>
  /\ Fault

\* list_zip_links returns the listing; main filters it (an invalid pattern
\* raises re.error out of main), exits when nothing is left, truncates it
\* to the limit and enters the loop
ListOk ==
  /\ pc = "list"
  /\ netReqs' = netReqs + 1
  /\ IF filter # <<>> /\ ~Compiles(filter)
     THEN /\ pc' = "crashed"
          /\ UNCHANGED <<zips, idx, ppc, attempted>>
     ELSE IF FilterZips(Listing, filter) = <<>>
     THEN /\ pc' = "exited"
          /\ UNCHANGED <<zips, idx, ppc, attempted>>
     ELSE /\ zips' = LimitZips(FilterZips(Listing, filter), limit)
          /\ pc' = "loop"
          /\ idx' = 1
          /\ ppc' = "start"
          /\ attempted' = <<zips'[1]>>
  /\ UNCHANGED <<run, status, prevAllDone, frame, fs, downloaded, body>>
  /\ UNCHANGED faults

\* list_zip_links raises (fetch failed, or no .zip found): main ends
ListFail ==
  /\ pc = "list"
  /\ netReqs' = netReqs + 1
  /\ pc' = "aborted"
  /\ UNCHANGED <<run, zips, idx, ppc, status, attempted, prevAllDone, frame,
                 fs, downloaded, body>>
  /\ Fault

\* process_one_zip is over for zips[idx] with the given outcome; the loop
\* of main moves to the next archive or to the final print
NextArchive(outcome) ==
  /\ status' = [status EXCEPT ![Cur] = outcome]
  /\ idx' = idx + 1
  /\ body' = <<>>
  /\ downloaded' = 0
  /\ IF idx < Len(zips)
     THEN /\ pc' = "loop"
          /\ ppc' = "start"
          /\ attempted' = Append(attempted, zips[idx + 1])
     ELSE /\ pc' = "finished"
          /\ ppc' = "none"
          /\ attempted' = attempted
  /\ UNCHANGED <<run, zips, prevAllDone, frame>>

\* an exception leaves process_one_zip: "except Exception" in main's loop
RaiseHaltsRun ==
  /\ status' = [status EXCEPT ![Cur] = "Failed"]
  /\ pc' = "aborted"
  /\ ppc' = "none"
  /\ body' = <<>>
  /\ downloaded' = 0
  /\ UNCHANGED <<run, zips, idx, attempted, prevAllDone, frame>>
Raise == NextArchive("Failed")


\* -------------------------------------------------------- process_one_zip
\* "[SKIP]": return at once, touching nothing
SkipAlsoCleans ==
  /\ zipFile' = [zipFile EXCEPT ![Cur] = NoFile]
  /\ UNCHANGED <<partFile, csvFile, parquetFile, netReqs>>
  /\ NextArchive("Skipped")
SkipArchive ==
  /\ UNCHANGED <<fs, netReqs>>
  /\ NextArchive("Skipped")

\* parquet_path.exists()
ParquetNeverExists(a) == FALSE
ParquetExists(a) == parquetFile[a].exists

\* "if zip_path.exists()": the integrity check, else a download
AfterZipCheckNoFetch(a) == IF zipFile[a].exists THEN "unzip" ELSE "dl_request"
AfterZipCheck(a) == IF zipFile[a].exists THEN "testzip" ELSE "dl_request"

\* entry of process_one_zip: the Parquet existence check, then the zip
\* existence check that chooses between the integrity check and a download
StartProcess ==
  /\ pc = "loop" /\ ppc = "start"
  /\ IF ParquetExists(Cur)
     THEN SkipArchive
     ELSE /\ ppc' = AfterZipCheck(Cur)
          /\ UNCHANGED <<ctl, idx, status, attempted, netReqs, frame, fs,
                         downloaded, body>>
  /\ UNCHANGED faults

\* the integrity check of an existing zip: unlink and download again when
\* testzip names a bad member or ZipFile raises BadZipFile; any other
\* exception leaves process_one_zip
\* (seeded fault: a sound archive is fetched again as well)
TestZipRefetches ==
  /\ pc = "loop" /\ ppc = "testzip"
  /\ LET r == Integrity(Cur, zipFile[Cur].bytes) IN
     CASE r \in {"ok", "bad_member", "BadZipFile"} ->
            /\ zipFile' = [zipFile EXCEPT ![Cur] = NoFile]
            /\ ppc' = "dl_request"
            /\ UNCHANGED <<ctl, idx, status, attempted, netReqs, frame,
                           partFile, csvFile, parquetFile, downloaded, body>>
       [] OTHER ->
            /\ Raise
            /\ UNCHANGED <<fs, netReqs>>
  /\ UNCHANGED faults
TestZip ==
  /\ pc = "loop" /\ ppc = "testzip"
  /\ LET r == Integrity(Cur, zipFile[Cur].bytes) IN
     CASE r = "ok" ->
            /\ ppc' = "unzip"
            /\ UNCHANGED <<ctl, idx, status, attempted, netReqs, frame, fs,
                           downloaded, body>>
       [] r \in {"bad_member", "BadZipFile"} ->
            /\ zipFile' = [zipFile EXCEPT ![Cur] = NoFile]
            /\ ppc' = "dl_request"
            /\ UNCHANGED <<ctl, idx, status, attempted, netReqs, frame,
                           partFile, csvFile, parquetFile, downloaded, body>>
       [] OTHER ->
            /\ Raise
            /\ UNCHANGED <<fs, netReqs>>
  /\ UNCHANGED faults

\* download_file up to "open(tmp, mode)": the size of .part, the Range
\* header, the GET and raise_for_status, then .part created if missing
DownloadRequest ==
  /\ pc = "loop" /\ ppc = "dl_request"
  /\ netReqs' = netReqs + 1
  /\ LET n == IF partFile[Cur].exists THEN Len(partFile[Cur].bytes) ELSE 0
         r == Respond(Cur, RangeHeader(n))
     IN \/ /\ r.code \in {200, 206}
           /\ downloaded' = n
           /\ body' = r.body
           /\ partFile' = [partFile EXCEPT ![Cur] =
                             IF partFile[Cur].exists THEN @ ELSE File(<<>>)]
           /\ ppc' = "dl_body"
           /\ UNCHANGED faults
           /\ UNCHANGED <<ctl, idx, status, attempted, frame, zipFile,
                          csvFile, parquetFile>>
        \/ \* raise_for_status raises on the server's error status
           /\ r.code \notin {200, 206}
           /\ Raise
           /\ UNCHANGED <<fs, faults>>
        \/ \* the connection fails
           /\ Fault
           /\ Raise
           /\ UNCHANGED fs

\* one chunk of the response written to .part
DownloadChunk ==
  /\ pc = "loop" /\ ppc = "dl_body"
  /\ body # <<>>
  /\ partFile' = [partFile EXCEPT ![Cur] = File(Append(@.bytes, Head(body)))]
  /\ body' = Tail(body)
  /\ UNCHANGED <<ctl, idx, ppc, status, attempted, netReqs, frame, zipFile,
                 csvFile, parquetFile, downloaded>>
  /\ UNCHANGED faults

\* the connection breaks while the body is read
DownloadBreakRetries ==
  /\ pc = "loop" /\ ppc = "dl_body"
  /\ body # <<>>
  /\ ppc' = "dl_request"
  /\ UNCHANGED <<ctl, idx, status, attempted, netReqs, frame, fs,
                 downloaded, body>>
  /\ Fault
DownloadBreak ==
  /\ pc = "loop" /\ ppc = "dl_body"
  /\ body # <<>>
  /\ Raise
  /\ UNCHANGED <<fs, netReqs>>
  /\ Fault

\* the body is exhausted: tmp.rename(dest)
RenameTruncated(a) ==
  /\ zipFile' = [zipFile EXCEPT ![a] = File(partFile[a].bytes)]
  /\ partFile' = [partFile EXCEPT ![a] = NoFile]
RenamePart(a) ==
  /\ body = <<>>
  /\ zipFile' = [zipFile EXCEPT ![a] = File(partFile[a].bytes)]
  /\ partFile' = [partFile EXCEPT ![a] = NoFile]

DownloadRename ==
  /\ pc = "loop" /\ ppc = "dl_body"
  /\ RenamePart(Cur)
  /\ ppc' = "unzip"
  /\ UNCHANGED <<ctl, idx, status, attempted, netReqs, frame, csvFile,
                 parquetFile, downloaded, body>>
  /\ UNCHANGED faults

\* unzip_single_csv: the member is extracted to csv_tmp, or it raises: before
\* anything is touched, after a text of an earlier run was unlinked, or in
\* the extraction, which leaves what it wrote so far
Unzip ==
  /\ pc = "loop" /\ ppc = "unzip"
  /\ \/ /\ csvFile' = [csvFile EXCEPT ![Cur] = TRUE]
        /\ ppc' = "convert"
        /\ downloaded' = 0
        /\ UNCHANGED faults
        /\ UNCHANGED <<ctl, idx, status, attempted, netReqs, frame, zipFile,
                       partFile, parquetFile, body>>
     \/ /\ Fault
        /\ Raise
        /\ \E c \in BOOLEAN : csvFile' = [csvFile EXCEPT ![Cur] = c]
        /\ UNCHANGED <<zipFile, partFile, parquetFile, netReqs>>

\* csv_to_parquet, one pass of the loop: the first one creates the
\* ParquetWriter on parquet_path, each one writes its batch
WriteBatch(p) == [exists |-> TRUE, rows |-> p.rows + 1, closed |-> FALSE]

ConvertBatch ==
  /\ pc = "loop" /\ ppc = "convert"
  /\ parquetFile[Cur].rows < CsvBatches(Cur)
  /\ parquetFile' = [parquetFile EXCEPT ![Cur] = WriteBatch(@)]
  /\ UNCHANGED <<ctl, idx, ppc, status, attempted, netReqs, frame, zipFile,
                 partFile, csvFile, downloaded, body>>
  /\ UNCHANGED faults

\* "finally: if writer is not None: writer.close()" on an exception
CloseOnError(p) == IF p.exists THEN [p EXCEPT !.closed = TRUE] ELSE p

\* csv_to_parquet raises before the last batch is written (the header
\* sample, a read, a write): the writer, if there is one, is closed
ConvertFail ==
  /\ pc = "loop" /\ ppc = "convert"
  /\ parquetFile[Cur].rows < CsvBatches(Cur)
  /\ parquetFile' = [parquetFile EXCEPT ![Cur] = CloseOnError(@)]
  /\ Raise
  /\ UNCHANGED <<zipFile, partFile, csvFile, netReqs>>
  /\ Fault

\* the loop ends, the writer is closed, parquet_path.stat() succeeds
ConvertCloseUnwritten ==
  /\ pc = "loop" /\ ppc = "convert"
  /\ ppc' = "cleanup"
  /\ UNCHANGED <<ctl, idx, status, attempted, netReqs, frame, fs,
                 downloaded, body>>
  /\ UNCHANGED faults
ConvertClose ==
  /\ pc = "loop" /\ ppc = "convert"
  /\ parquetFile[Cur].rows = CsvBatches(Cur)
  /\ parquetFile' = [parquetFile EXCEPT ![Cur].closed = TRUE]
  /\ ppc' = "cleanup"
  /\ UNCHANGED <<ctl, idx, status, attempted, netReqs, frame, zipFile,
                 partFile, csvFile, downloaded, body>>
  /\ UNCHANGED faults

\* "limpeza": the text and the zip are unlinked unless kept
CleanupIgnoresKeep ==
  /\ pc = "loop" /\ ppc = "cleanup"
  /\ csvFile' = [csvFile EXCEPT ![Cur] = FALSE]
  /\ zipFile' = [zipFile EXCEPT ![Cur] = NoFile]
  /\ NextArchive("Done")
  /\ UNCHANGED <<partFile, parquetFile, netReqs>>
  /\ UNCHANGED faults
Cleanup ==
  /\ pc = "loop" /\ ppc = "cleanup"
  /\ csvFile' = [csvFile EXCEPT ![Cur] = IF keep_csv THEN @ ELSE FALSE]
  /\ zipFile' = [zipFile EXCEPT ![Cur] = IF keep_zip THEN @ ELSE NoFile]
  /\ NextArchive("Done")
  /\ UNCHANGED <<partFile, parquetFile, netReqs>>
  /\ UNCHANGED faults

\* an unlink of the cleanup raises: the text's (nothing is removed) or the
\* zip's (the text is already gone)
CleanupFail ==
  /\ pc = "loop" /\ ppc = "cleanup"
  /\ \/ /\ ~keep_csv
        /\ UNCHANGED csvFile
     \/ /\ ~keep_zip /\ zipFile[Cur].exists
        /\ csvFile' = [csvFile EXCEPT ![Cur] = IF keep_csv THEN @ ELSE FALSE]
  /\ Raise
  /\ UNCHANGED <<zipFile, partFile, parquetFile, netReqs>>
  /\ Fault

\* ------------------------------------------------------------ environment
\* the process is terminated abruptly: nothing is closed, renamed or removed
Kill ==
  /\ pc \in {"list", "loop"}
  /\ pc' = "killed"
  /\ prevAllDone' = FALSE
  /\ Exited
  /\ UNCHANGED <<run, frame, fs>>
  /\ Fault

\* between two runs a byte of a completed archive on disk is damaged
Corrupt ==
  /\ pc \in {"idle", "finished", "exited", "aborted", "crashed", "killed"}
  /\ run < MaxRuns
  /\ \E a \in Archives, kind \in DamageKinds :
       /\ zipFile[a].exists
       /\ zipFile[a].bytes = RemoteBytes(a)
       /\ zipFile' = [zipFile EXCEPT ![a] = File(Damage(@.bytes, kind))]
  /\ pc' = "idle"
  /\ prevAllDone' = LastRunAllDone
  /\ Exited
  /\ UNCHANGED <<run, frame, partFile, csvFile, parquetFile>>
  /\ Fault

\* ---------------------------------------------------------- specification
Step ==
  \/ SetupFail
  \/ ListOk
  \/ ListFail
  \/ StartProcess
  \/ TestZip
  \/ DownloadRequest
  \/ DownloadChunk
  \/ DownloadBreak
  \/ DownloadRename
  \/ Unzip
  \/ ConvertBatch
  \/ ConvertFail
  \/ ConvertClose
  \/ Cleanup
  \/ CleanupFail

Next ==
  \/ StartRun
  \/ Step
  \/ Kill
  \/ Corrupt

Spec == Init /\ [][Next]_vars

\* a run that is not killed: every step of the sequential program is
\* eventually taken (every network read has a timeout)
NextAlive ==
  \/ StartRun
  \/ Step
  \/ Corrupt

FairSpec == Init /\ [][NextAlive]_vars /\ WF_vars(Step)

\* runs of main under every --filter and --limit, against a server that
\* honours Range and with the default --keep flags; no damage between runs
MainInit ==
  /\ Fresh
  /\ MainOnly
  /\ rangeOk = TRUE
  /\ keep_zip = FALSE
  /\ keep_csv = FALSE
  /\ filter \in Filters
  /\ limit \in Limits

MainNext ==
  \/ StartRun
  \/ Step
  \/ Kill

MainSpec == MainInit /\ [][MainNext]_vars


\* --------------------------------------------------------- list_zip_links
\* main is not running: a function is called on its own
Standalone ==
  /\ Fresh
  /\ rangeOk = TRUE
  /\ keep_zip = FALSE
  /\ keep_csv = FALSE
  /\ filter = <<>>
  /\ limit = 0
  /\ ret = Pending

\* the ".zip" that ends an href ZIP_PATTERN captures, as one character
\* after the letters
DotZip == MaxName + 1

\* the "/" of a path
Slash == MaxName + 2

\* file names of a page: one letter, or the same letter twice
Names == {<<n>> : n \in 1..MaxName} \cup {<<n, n>> : n \in 1..MaxName}

\* href values of a page: relative archive names, the same as absolute
\* URLs, an archive in a subdirectory, and a link that is not an archive
Hrefs ==
  {nm \o <<DotZip>> : nm \in Names}
    \cup {BaseUrl \o nm \o <<DotZip>> : nm \in Names}
    \cup {<<1, Slash, n, DotZip>> : n \in 1..MaxName}
    \cup {<<1>>}

\* zip_url.rstrip("/").split("/")[-1]: what follows the last "/" of the URL
\* (the base URL ends in one)
zip_name(zip_url) ==
  LET cuts == {i \in 1..Len(zip_url) : zip_url[i] \in {Slash, BaseUrl[1]}}
      last == IF cuts = {} THEN 0
              ELSE CHOOSE i \in cuts : \A j \in cuts : j <= i
  IN SubSeq(zip_url, last + 1, Len(zip_url))

\* Path(zip_name).stem: the name without its last suffix
stem(name) ==
  IF name # <<>> /\ name[Len(name)] = DotZip
  THEN SubSeq(name, 1, Len(name) - 1) ELSE name

\* r.text, as the sequence of its href values
Pages == UNION {[1..n -> Hrefs] : n \in 0..MaxLinks}

\* ZIP_PATTERN matches the href: it ends in .zip
ZipPattern(h) == Len(h) > 0 /\ h[Len(h)] = DotZip

\* urljoin(base, h): an absolute href is kept, a relative one is appended
\* to the directory URL
urljoin(base, h) == IF h[1] = base[1] THEN h ELSE base \o h

\* s < t on Python strings
LexLess(s, t) ==
  \E k \in 0..Len(s) :
    /\ k <= Len(t)
    /\ \A i \in 1..k : s[i] = t[i]
    /\ IF k = Len(s) THEN k < Len(t)
       ELSE k < Len(t) /\ s[k + 1] < t[k + 1]

\* sorted(S) of a set of strings
RECURSIVE Sorted(_)
Sorted(S) ==
  IF S = {} THEN <<>>
  ELSE LET m == CHOOSE x \in S : \A y \in S \ {x} : LexLess(x, y)
       IN <<m>> \o Sorted(S \ {m})

\* the joined hrefs in page order, duplicates kept
list_zip_links_unsorted(ok, text) ==
  IF ~ok THEN Raised("HTTPError")
  ELSE LET links == SelectSeq(text, ZipPattern)
       IN IF links = <<>> THEN Raised("RuntimeError")
          ELSE Returned([i \in 1..Len(links) |-> urljoin(BaseUrl, links[i])])

\* list_zip_links(base_url) when the fetch succeeds (ok) with body text
list_zip_links(ok, text) ==
  IF ~ok THEN Raised("HTTPError")
  ELSE LET links == SelectSeq(text, ZipPattern)
           zs == Sorted({urljoin(BaseUrl, links[i]) : i \in 1..Len(links)})
       IN IF zs = <<>> THEN Raised("RuntimeError") ELSE Returned(zs)

ListInit ==
  /\ Standalone
  /\ args \in {[fn |-> "list_zip_links", ok |-> o, text |-> t] :
                 o \in BOOLEAN, t \in Pages}

CallListZipLinks ==
  /\ args.fn = "list_zip_links"
  /\ ret = Pending
  /\ ret' = list_zip_links(args.ok, args.text)
  /\ UNCHANGED <<args, pipeline>>

ListSpec == ListInit /\ [][CallListZipLinks]_vars

\* ------------------------------------------------------- unzip_single_csv
\* member names are sequences of pieces: "x" stands for letters that do not
\* spell csv or txt
FileNames ==
  { <<"x", ".", "csv">>, <<"x", ".", "CSV">>, <<"x", "CSV">>,
    <<"x", ".", "txt">>, <<"csv", "x">>, <<"x">> }

\* uncompressed sizes (ZipInfo.file_size)
Sizes == {1, 2}

\* a member d/.../d/<name> of an archive, nested in depth directories
Members ==
  {[depth |-> k, name |-> nm, size |-> sz] :
     k \in 0..MaxDepth, nm \in FileNames, sz \in Sizes}

\* z.namelist() with each member's ZipInfo
Namelists == UNION {[1..n -> Members] : n \in 0..MaxMembers}

\* the pieces that are not already lower case, with their lower case
LowerCase ==
  { <<"CSV", "csv">>, <<"TXT", "txt">>, <<"EMPRECSV", "emprecsv">>,
    <<"Empresas", "empresas">>, <<"Razão", "razão">>, <<"Razao", "razao">>,
    <<"Social", "social">> }

\* str.lower()
lower(s) ==
  [i \in 1..Len(s) |->
     IF \E pr \in LowerCase : pr[1] = s[i]
     THEN (CHOOSE pr \in LowerCase : pr[1] = s[i])[2]
     ELSE s[i]]

\* str.endswith(suf)
endswith(s, suf) ==
  Len(s) >= Len(suf) /\ SubSeq(s, Len(s) - Len(suf) + 1, Len(s)) = suf

\* m.lower().endswith(("csv", ".csv", ".txt"))
HasTextSuffix(m) ==
  \/ endswith(lower(m.name), <<"csv">>)
  \/ endswith(lower(m.name), <<".", "csv">>)
  \/ endswith(lower(m.name), <<".", "txt">>)

\* "csv" in m.lower()
ContainsCsv(m) == \E i \in 1..Len(m.name) : lower(m.name)[i] = "csv"

\* max(names, key=file_size): the first member of the greatest size
Largest(names) ==
  CHOOSE i \in 1..Len(names) :
    /\ \A j \in 1..Len(names) : names[j].size <= names[i].size
    /\ \A j \in 1..(i - 1) : names[j].size < names[i].size

\* member = cand[0]
LastOf(cand) == cand[Len(cand)]
FirstOf(cand) == cand[1]

\* unzip_single_csv on an archive with the given namelist, into an empty
\* extract_dir: the position of the member extracted, the path returned,
\* the files and the directories (by depth of the chain d, d/d, ...) in
\* extract_dir on return.  The member is extracted under its own name and
\* moved to the root when that differs from the path to return; only the
\* member's immediate parent directory is then removed
unzip_single_csv(names) ==
  IF names = <<>> THEN Raised("RuntimeError")
  ELSE
    LET all == [i \in 1..Len(names) |-> i]
        c1 == SelectSeq(all, LAMBDA i : HasTextSuffix(names[i]))
        c2 == SelectSeq(all, LAMBDA i : ContainsCsv(names[i]))
        cand == IF c1 # <<>> THEN c1
                ELSE IF c2 # <<>> THEN c2
                ELSE <<Largest(names)>>
        member == names[FirstOf(cand)]
        base_name == IF endswith(lower(member.name), <<".", "csv">>)
                     THEN member.name
                     ELSE member.name \o <<".", "csv">>
        out_path == [depth |-> 0, name |-> base_name]
        moved == member.depth > 0 \/ base_name # member.name
    IN Returned([member |-> FirstOf(cand),
                 out_path |-> out_path,
                 files |-> {out_path},
                 dirs |-> IF moved THEN 1..(member.depth - 1)
                          ELSE 1..member.depth])

UnzipInit ==
  /\ Standalone
  /\ args \in {[fn |-> "unzip_single_csv", names |-> ns] : ns \in Namelists}

CallUnzipSingleCsv ==
  /\ args.fn = "unzip_single_csv"
  /\ ret = Pending
  /\ ret' = unzip_single_csv(args.names)
  /\ UNCHANGED <<args, pipeline>>

UnzipSpec == UnzipInit /\ [][CallUnzipSingleCsv]_vars

\* --------------------------------------------------------- csv_to_parquet
COLS ==
  [
  cnaes |->
    << <<"codigo">>,
       <<"descricao">> >>,
  empresas |->
    << <<"cnpj", "_", "basico">>,
       <<"razao", "_", "social">>,
       <<"natureza", "_", "juridica">>,
       <<"qualificacao", "_", "responsavel">>,
       <<"capital", "_", "social", "_", "empresa">>,
       <<"porte", "_", "empresa">>,
       <<"ente", "_", "federativo", "_", "responsavel">> >>,
  estabelecimentos |->
    << <<"cnpj", "_", "basico">>,
       <<"cnpj", "_", "ordem">>,
       <<"cnpj", "_", "dv">>,
       <<"identificador", "_", "matriz", "_", "filial">>,
       <<"nome", "_", "fantasia">>,
       <<"situacao", "_", "cadastral">>,
       <<"data", "_", "situacao", "_", "cadastral">>,
       <<"motivo", "_", "situacao", "_", "cadastral">>,
       <<"nome", "_", "cidade", "_", "exterior">>,
       <<"pais">>,
       <<"data", "_", "inicio", "_", "atividade">>,
       <<"cnae", "_", "fiscal", "_", "principal">>,
       <<"cnae", "_", "fiscal", "_", "secundaria">>,
       <<"tipo", "_", "logradouro">>,
       <<"logradouro">>,
       <<"numero">>,
       <<"complemento">>,
       <<"bairro">>,
       <<"cep">>,
       <<"uf">>,
       <<"municipio">>,
       <<"ddd", "_", "1">>,
       <<"telefone", "_", "1">>,
       <<"ddd", "_", "2">>,
       <<"telefone", "_", "2">>,
       <<"ddd", "_", "fax">>,
       <<"fax">>,
       <<"correio", "_", "eletronico">>,
       <<"situacao", "_", "especial">>,
       <<"data", "_", "situacao", "_", "especial">> >>,
  municipios |->
    << <<"codigo">>,
       <<"descricao">> >>,
  simples |->
    << <<"cnpj", "_", "basico">>,
       <<"opcao", "_", "simples">>,
       <<"data", "_", "opcao", "_", "simples">>,
       <<"data", "_", "exclusao", "_", "simples">>,
       <<"opcao", "_", "mei">>,
       <<"data", "_", "opcao", "_", "mei">>,
       <<"data", "_", "exclusao", "_", "mei">> >>,
  motivos |->
    << <<"codigo">>,
       <<"descricao">> >>,
  naturezas |->
    << <<"codigo">>,
       <<"descricao">> >>,
  socios |->
    << <<"cnpj", "_", "basico">>,
       <<"identificador", "_", "socio">>,
       <<"nome", "_", "socio", "_", "ou", "_", "razao", "_", "social">>,
       <<"cnpj", "_", "cpf", "_", "socio">>,
       <<"qualificacao", "_", "socio">>,
       <<"data", "_", "entrada", "_", "sociedade">>,
       <<"pais">>,
       <<"representante", "_", "legal">>,
       <<"nome", "_", "representante">>,
       <<"qualificacao", "_", "representante", "_", "legal">>,
       <<"faixa", "_", "etaria">> >>,
  paises |->
    << <<"codigo">>,
       <<"descricao">> >>,
  qualificacoes |->
    << <<"codigo">>,
       <<"descricao">> >>
  ]

\* COLS.get(base): None is the empty list
ColsGet(base) == IF base \in DOMAIN COLS THEN COLS[base] ELSE <<>>

DETECT_MAP ==
  << [base |-> "empresas", keys |-> <<"empresas", "emprecsv">>],
     [base |-> "estabelecimentos", keys |-> <<"estabele", "estabcsv">>],
     [base |-> "simples", keys |-> <<"simples">>],
     [base |-> "cnaes", keys |-> <<"cnaes", "cnae">>],
     [base |-> "municipios",
      keys |-> <<"municipios", "municípios", "municipio", "municcsv">>],
     [base |-> "naturezas", keys |-> <<"naturezas", "natureza", "natjucsv">>],
     [base |-> "motivos", keys |-> <<"motivos", "motivo", "moticsv">>],
     [base |-> "socios",
      keys |-> <<"socios", "sócios", "sociccsv", "socioscsv", "sociocsv">>],
     [base |-> "paises", keys |-> <<"paises", "países", "pais">>],
     [base |-> "qualificacoes",
      keys |-> <<"qualificacoes", "qualificações", "qualif", "qualscsv">>] >>

AllKeys ==
  UNION {{DETECT_MAP[e].keys[k] : k \in 1..Len(DETECT_MAP[e].keys)} :
           e \in 1..Len(DETECT_MAP)}

FirstKeys == {DETECT_MAP[e].keys[1] : e \in 1..Len(DETECT_MAP)}

\* the pairs <<k, w>> of different words where k is a substring of w
Infixes ==
  { <<"cnae", "cnaes">>, <<"municipio", "municipios">>,
    <<"natureza", "naturezas">>, <<"motivo", "motivos">>,
    <<"socios", "socioscsv">>, <<"pais", "paises">>,
    <<"qualif", "qualificacoes">>, <<"qualif", "qualificações">>,
    <<"cnae", "cnaecsv">>, <<"pais", "paiscsv">> }

\* "k in n" for a name n made of words
Occurs(k, n) == \E i \in 1..Len(n) : k = n[i] \/ <<k, n[i]>> \in Infixes

\* the entry at or after position e of DETECT_MAP one of whose keys occurs
\* in n, "" when there is none
RECURSIVE DetectFrom(_, _)
DetectFrom(n, e) ==
  IF e > Len(DETECT_MAP) THEN ""
  ELSE IF \E k \in 1..Len(DETECT_MAP[e].keys) : Occurs(DETECT_MAP[e].keys[k], n)
       THEN DETECT_MAP[e].base
       ELSE DetectFrom(n, e + 1)

\* detect_base_from_filename(path), on path.name
detect_base_case_sensitive(name) == DetectFrom(name, 1)
detect_base_from_filename(name) == DetectFrom(lower(name), 1)

\* i written in decimal, one piece per digit
RECURSIVE Decimal(_)
Decimal(i) ==
  IF i < 10 THEN <<ToString(i)>>
  ELSE Decimal(i \div 10) \o <<ToString(i % 10)>>

\* f"col_{i:02d}"
AutoNameUnpadded(i) == <<"col", "_">> \o Decimal(i)
AutoName(i) ==
  <<"col", "_">> \o (IF i < 10 THEN <<"0">> ELSE <<>>) \o Decimal(i)

\* choose_column_names: the names to force, or None (none = TRUE) to let
\* pandas take the header row
choose_header_first(base, ncols_detected, header_present) ==
  IF header_present THEN [none |-> TRUE, names |-> <<>>]
  ELSE IF ColsGet(base) # <<>> /\ Len(ColsGet(base)) = ncols_detected
  THEN [none |-> FALSE, names |-> ColsGet(base)]
  ELSE [none |-> FALSE,
        names |-> [i \in 1..ncols_detected |-> AutoName(i - 1)]]

choose_column_names(base, ncols_detected, header_present) ==
  IF ColsGet(base) # <<>> /\ Len(ColsGet(base)) = ncols_detected
  THEN [none |-> FALSE, names |-> ColsGet(base)]
  ELSE IF header_present THEN [none |-> TRUE, names |-> <<>>]
  ELSE [none |-> FALSE,
        names |-> [i \in 1..ncols_detected |-> AutoName(i - 1)]]

\* unidecode(): the accented pieces with their ASCII form
Unaccent == { <<"Razão", "Razao">>, <<"razão", "razao">> }

unidecode(s) ==
  [i \in 1..Len(s) |->
     IF \E pr \in Unaccent : pr[1] = s[i]
     THEN (CHOOSE pr \in Unaccent : pr[1] = s[i])[2]
     ELSE s[i]]

\* the pieces that are not letters or digits
Seps == {"_", " ", ".", "-"}
DigitPieces == {ToString(d) : d \in 0..9}

\* to_sql_name of renomear_colunas.py: ASCII, lower case, every run of
\* other characters replaced by one "_", no "_" at either end
to_sql_name(raw) ==
  LET s1 == lower(unidecode(raw))
      s2 == [i \in 1..Len(s1) |-> IF s1[i] \in Seps THEN "_" ELSE s1[i]]
      keep == SelectSeq([i \in 1..Len(s2) |-> i],
                        LAMBDA i : ~(s2[i] = "_" /\ (i = 1 \/ s2[i - 1] = "_")))
      s3 == [j \in 1..Len(keep) |-> s2[keep[j]]]
  IN IF s3 # <<>> /\ s3[Len(s3)] = "_" THEN SubSeq(s3, 1, Len(s3) - 1) ELSE s3

\* words of the name of an extracted text
CsvWords == AllKeys \cup {"x", "cnaecsv", "paiscsv", "EMPRECSV"}

\* names of extracted texts: one word, or two words of different tables
CsvNames ==
  {<<w, ".", "csv">> : w \in CsvWords}
    \cup {<<w1, ".", w2, ".", "csv">> : w1 \in FirstKeys, w2 \in FirstKeys}

\* stems of archive names (the stem of parquet_path)
ZipStems == {<<"Empresas">>, <<"x">>}

\* column counts: small ones and those of the fixed lists
NCols == (1..MaxCols) \cup {Len(COLS[b]) : b \in DOMAIN COLS}

\* how the fields of a first row are written: canonical labels, labels
\* with capitals, accents and blanks, numbers, or numbers after a "_"
RowStyles == {<<"razao", "_">>, <<"Razão", " ", "Social", " ">>, <<>>, <<"_">>}

\* the fields of the first line of a text of n columns
FirstRow(st, n) == [i \in 1..n |-> st \o Decimal(i)]

\* looks_like_header(line): the line has a delimiter (two fields or more)
\* and a letter or "_"
looks_like_header(row) ==
  /\ Len(row) > 1
  /\ \E i \in 1..Len(row) : \E j \in 1..Len(row[i]) :
       row[i][j] \notin DigitPieces \cup (Seps \ {"_"})

\* the column names of the chunks read: the header row when no names are
\* forced, the forced names otherwise
columns_normalized(decided, header_present, first_row) ==
  IF decided.none /\ header_present
  THEN [i \in 1..Len(first_row) |-> to_sql_name(first_row[i])]
  ELSE decided.names
columns_written(decided, header_present, first_row) ==
  IF decided.none /\ header_present THEN first_row ELSE decided.names

\* csv_to_parquet(csv_path, parquet_path), up to the schema of the artifact
csv_to_parquet(csv_name, first_row) ==
  LET base == detect_base_from_filename(csv_name)
      header_present == looks_like_header(first_row)
      ncols == Len(first_row)
      decided == choose_column_names(base, ncols, header_present)
  IN Returned([base |-> base,
               header_present |-> header_present,
               decided |-> decided,
               columns |-> columns_written(decided, header_present, first_row)])

ConvertInit ==
  /\ Standalone
  /\ args \in {[fn |-> "csv_to_parquet", csv_name |-> c, stem |-> z,
                 first_row |-> FirstRow(st, n)] :
                 c \in CsvNames, z \in ZipStems, st \in RowStyles, n \in NCols}

CallCsvToParquet ==
  /\ args.fn = "csv_to_parquet"
  /\ ret = Pending
  /\ ret' = csv_to_parquet(args.csv_name, args.first_row)
  /\ UNCHANGED <<args, pipeline>>

ConvertSpec == ConvertInit /\ [][CallCsvToParquet]_vars

\* ------------------------------------------------ csv_to_parquet: rows
\* the definitive read takes the first line as header row (header=0), or
\* as data under the forced names (header=None)
HeaderRowReadIfPresent(decided, header_present) == header_present
HeaderRowRead(decided, header_present) == decided.none /\ header_present

\* pd.read_csv(engine="python", on_bad_lines="warn") over lines given by
\* their field counts, for n names: a line with more fields than the width
\* is skipped with one ParserWarning, a line with fewer fields is kept and
\* filled with NaN.  When the first line has more fields than there are
\* names, its leading fields are taken as row labels and the width grows by
\* as many; under header=0, when the second line has as many fields as the
\* first line and the names together, the first line is taken as the names
\* of the row labels
ReadRows(n, lines, header_row) ==
  LET label_names == header_row /\ Len(lines) >= 2 /\ lines[2] = lines[1] + n
      width == IF label_names THEN lines[2]
               ELSE IF lines # <<>> /\ lines[1] > n THEN lines[1] ELSE n
      data == IF label_names THEN Tail(lines) ELSE lines
      kept == SelectSeq(data, LAMBDA k : k <= width)
  IN [rows |-> Len(kept),
      warnings |-> Len(data) - Len(kept),
      filled |-> Len(SelectSeq(kept, LAMBDA k : k < width))]

\* csv_to_parquet on a text whose first line has the fields first_row and
\* whose other lines have the field counts more: the names and the rows of
\* the artifact, the warnings printed
csv_to_parquet_rows(csv_name, first_row, more) ==
  LET v == csv_to_parquet(csv_name, first_row).value
      header_row == HeaderRowRead(v.decided, v.header_present)
      lines == IF header_row THEN more ELSE <<Len(first_row)>> \o more
      read == ReadRows(Len(first_row), lines, header_row)
  IN Returned([base |-> v.base,
               header_present |-> v.header_present,
               header_row |-> header_row,
               columns |-> v.columns,
               rows |-> read.rows,
               warnings |-> read.warnings,
               filled |-> read.filled])

RowsInit ==
  /\ Standalone
  /\ args \in {[fn |-> "csv_to_parquet_rows", csv_name |-> <<w, ".", "csv">>,
                 first_row |-> FirstRow(st, n), is_header |-> h, more |-> m] :
                 w \in {"cnaecsv", "x"}, st \in RowStyles, n \in 1..MaxCols,
                 h \in BOOLEAN,
                 m \in UNION {[1..r -> 1..(MaxCols + 1)] : r \in 0..MaxRows}}

CallCsvToParquetRows ==
  /\ args.fn = "csv_to_parquet_rows"
  /\ ret = Pending
  /\ ret' = csv_to_parquet_rows(args.csv_name, args.first_row, args.more)
  /\ UNCHANGED <<args, pipeline>>

RowsSpec == RowsInit /\ [][CallCsvToParquetRows]_vars

\* --------------------------------------------- csv_to_parquet: layout
\* a batch of the definitive read, by column: TRUE when some row of the
\* batch has a value in the column, FALSE when the column is empty in every
\* row of the batch (read_csv with dtype=str gives NaN for an empty field)
Batches(n) ==
  UNION {[1..b -> [1..n -> BOOLEAN]] : b \in 1..MaxBatches}

\* the Arrow type pa.Table.from_pandas infers for an object column: string
\* when it holds a str, null when every value is NaN
ArrowType(has_value) == IF has_value THEN "string" ELSE "null"

\* table.schema of one batch
TableSchema(batch) == [c \in DOMAIN batch |-> ArrowType(batch[c])]

\* the conversion loop: the writer takes the schema of the first table;
\* write_table raises ValueError for a table of another schema
write_batches(batches) ==
  LET schema == TableSchema(batches[1])
  IN IF \E i \in DOMAIN batches : TableSchema(batches[i]) # schema
     THEN Raised("ValueError")
     ELSE Returned([schema |-> schema, written |-> Len(batches)])

LayoutInit ==
  /\ Standalone
  /\ args \in {[fn |-> "write_batches", batches |-> bs] :
                 bs \in UNION {Batches(n) : n \in 1..MaxCols}}

CallWriteBatches ==
  /\ args.fn = "write_batches"
  /\ ret = Pending
  /\ ret' = write_batches(args.batches)
  /\ UNCHANGED <<args, pipeline>>

LayoutSpec == LayoutInit /\ [][CallWriteBatches]_vars

\* ------------------------------------------ cnpj_ingest_duckdb.ensure_utf8
\* bytes: "a", the two bytes of "e acute" in UTF-8 (0xC3 0xA9), and its one
\* byte in latin1 (0xE9), which in UTF-8 starts a sequence of three bytes
Bytes == {97, 195, 169, 233}
Texts == UNION {[1..n -> Bytes] : n \in 1..MaxFileLen}

IsCont(b) == b \in 128..191

\* bytes.decode("utf-8"), strict: the code points, or not ok where Python
\* raises UnicodeDecodeError (no byte of Bytes starts a four-byte sequence)
RECURSIVE Utf8Decode(_)
Utf8Decode(bs) ==
  IF bs = <<>> THEN [ok |-> TRUE, text |-> <<>>]
  ELSE
    LET b == bs[1]
        n == IF b < 128 THEN 1
             ELSE IF b \in 194..223 THEN 2
             ELSE IF b \in 224..239 THEN 3
             ELSE 0
    IN IF \/ n = 0
          \/ Len(bs) < n
          \/ \E i \in 2..n : ~IsCont(bs[i])
          \/ (b = 224 /\ bs[2] < 160)
          \/ (b = 237 /\ bs[2] > 159)
       THEN [ok |-> FALSE, text |-> <<>>]
       ELSE
         LET cp == IF n = 1 THEN b
                   ELSE IF n = 2 THEN (b - 192) * 64 + (bs[2] - 128)
                   ELSE (b - 224) * 4096 + (bs[2] - 128) * 64 + (bs[3] - 128)
             rest == Utf8Decode(SubSeq(bs, n + 1, Len(bs)))
         IN [ok |-> rest.ok,
             text |-> IF rest.ok THEN <<cp>> \o rest.text ELSE <<>>]

\* the text written through open(dst, "w", encoding="utf-8")
RECURSIVE Utf8Encode(_)
Utf8Encode(text) ==
  IF text = <<>> THEN <<>>
  ELSE
    LET cp == text[1]
    IN (IF cp < 128 THEN <<cp>>
        ELSE IF cp < 2048 THEN <<192 + (cp \div 64), 128 + (cp % 64)>>
        ELSE <<224 + (cp \div 4096), 128 + ((cp \div 64) % 64),
               128 + (cp % 64)>>)
       \o Utf8Encode(Tail(text))

\* the text read through open(src, "r", encoding="latin1"): one code point
\* per byte, of the byte's value
Latin1Decode(bs) == bs

\* the file src.with_suffix(src.suffix + ".utf8.csv")
NoDst == [exists |-> FALSE, bytes |-> <<>>]
Dst(bs) == [exists |-> TRUE, bytes |-> bs]

\* f.read(1_000_000); chunk.decode("utf-8") does not raise
SampleDecodes(src) ==
  Utf8Decode(SubSeq(src, 1, IF Len(src) < SampleLen THEN Len(src)
                            ELSE SampleLen)).ok

\* dst.exists() and dst.stat().st_size > 0
Reusable(dst) == dst.exists /\ Len(dst.bytes) > 0

\* ensure_utf8(src) with the file dst as it is found: the path returned
\* and the file dst as it is left
ensure_utf8(src, dst) ==
  IF SampleDecodes(src)
  THEN [path |-> "src", created |-> FALSE, reused |-> FALSE, dst |-> dst]
  ELSE IF Reusable(dst)
  THEN [path |-> "dst", created |-> FALSE, reused |-> TRUE, dst |-> dst]
  ELSE [path |-> "dst", created |-> TRUE, reused |-> FALSE,
        dst |-> Dst(Utf8Encode(Latin1Decode(src)))]

\* a text in one of the two encodings; a text in UTF-8 is valid UTF-8
Utf8Init ==
  /\ Standalone
  /\ args \in {[fn |-> "ensure_utf8", src |-> bs, encoding |-> e, dst |-> NoDst] :
                 bs \in Texts, e \in {"utf-8", "latin1"}}
  /\ args.encoding = "utf-8" => Utf8Decode(args.src).ok

CallEnsureUtf8 ==
  /\ args.fn = "ensure_utf8"
  /\ ret = Pending
  /\ LET r == ensure_utf8(args.src, args.dst)
     IN /\ ret' = Returned([path |-> r.path, created |-> r.created,
                            reused |-> r.reused])
        /\ args' = [args EXCEPT !.dst = r.dst]
  /\ UNCHANGED pipeline

\* the process is killed in the transcoding loop, after the first k
\* characters were written
KillEnsureUtf8 ==
  /\ args.fn = "ensure_utf8"
  /\ ret = Pending
  /\ ~SampleDecodes(args.src)
  /\ ~Reusable(args.dst)
  /\ \E k \in 0..(Len(args.src) - 1) :
       args' = [args EXCEPT
                  !.dst = Dst(Utf8Encode(Latin1Decode(SubSeq(args.src, 1, k))))]
  /\ ret' = Raised("killed")
  /\ UNCHANGED pipeline

\* the next run calls ensure_utf8 on the same text
RerunEnsureUtf8 ==
  /\ args.fn = "ensure_utf8"
  /\ ret # Pending
  /\ ret' = Pending
  /\ UNCHANGED <<args, pipeline>>

Utf8Next == CallEnsureUtf8 \/ KillEnsureUtf8 \/ RerunEnsureUtf8

Utf8Spec == Utf8Init /\ [][Utf8Next]_vars

\* the bytes of the file ensure_utf8 returned
ReturnedBytes ==
  IF ret.value.path = "src" THEN args.src ELSE args.dst.bytes

\* ------------------------------------- process_one_zip: two workers
\* two workers run process_one_zip at once, worker w on the archive of stem
\* w, under one work_dir and one out_dir
Workers == {1, 2}

\* base names of the members the archives hold
MemberNames == 1..MaxName

\* the paths of process_one_zip and unzip_single_csv: the archive file and
\* its ".part" under zips/ by the archive's name, the artifact under out_dir
\* by its stem, the extracted text under csv_tmp/ by the member's base name
zip_path(a) == [dir |-> "zips", name |-> a]
part_path(a) == [dir |-> "part", name |-> a]
parquet_path_shared(a) == [dir |-> "out", name |-> 1]
parquet_path(a) == [dir |-> "out", name |-> a]
out_path(m) == [dir |-> "csv_tmp", name |-> m]

Paths ==
  {[dir |-> d, name |-> n] :
     d \in {"zips", "part", "csv_tmp", "out"}, n \in Workers \cup MemberNames}

\* the text worker w extracts to
CsvPath(w) == out_path(args.member[w])

\* worker w touches (creates, overwrites, reads or deletes) the paths ps
Touch(w, ps) == [ret.touched EXCEPT ![w] = @ \cup ps]

WorkersInit ==
  /\ Standalone
  /\ args \in {[fn |-> "process_one_zip", member |-> m] :
                 m \in [Workers -> MemberNames]}

\* both workers start on a fresh disk; files maps a path to the archive
\* whose data the file holds, 0 where there is no file
StartWorkers ==
  /\ args.fn = "process_one_zip"
  /\ ret = Pending
  /\ ret' = [state |-> "running",
             wpc |-> [w \in Workers |-> "start"],
             files |-> [p \in Paths |-> 0],
             touched |-> [w \in Workers |-> {}]]
  /\ UNCHANGED <<args, pipeline>>

Running(w, at) == ret.state = "running" /\ ret.wpc[w] = at

\* download_file writes the ".part" file
WorkerDownload(w) ==
  /\ Running(w, "start")
  /\ ret' = [ret EXCEPT !.wpc[w] = "part",
                        !.files[part_path(w)] = w,
                        !.touched = Touch(w, {part_path(w)})]
  /\ UNCHANGED <<args, pipeline>>

\* download_file renames the ".part" file to the archive file
WorkerRename(w) ==
  /\ Running(w, "part")
  /\ ret' = [ret EXCEPT !.wpc[w] = "zip",
                        !.files[part_path(w)] = 0,
                        !.files[zip_path(w)] = ret.files[part_path(w)],
                        !.touched = Touch(w, {part_path(w), zip_path(w)})]
  /\ UNCHANGED <<args, pipeline>>

\* unzip_single_csv: if out_path.exists(): out_path.unlink()
WorkerUnlinkOld(w) ==
  /\ Running(w, "zip")
  /\ ret' = [ret EXCEPT !.wpc[w] = "extract",
                        !.files[CsvPath(w)] = 0,
                        !.touched = IF ret.files[CsvPath(w)] # 0
                                    THEN Touch(w, {zip_path(w), CsvPath(w)})
                                    ELSE Touch(w, {zip_path(w)})]
  /\ UNCHANGED <<args, pipeline>>

\* unzip_single_csv: the member is extracted and moved to out_path
WorkerExtract(w) ==
  /\ Running(w, "extract")
  /\ ret' = [ret EXCEPT !.wpc[w] = "csv",
                        !.files[CsvPath(w)] = ret.files[zip_path(w)],
                        !.touched = Touch(w, {zip_path(w), CsvPath(w)})]
  /\ UNCHANGED <<args, pipeline>>

\* csv_to_parquet reads the text and writes the artifact
WorkerConvert(w) ==
  /\ Running(w, "csv")
  /\ ret.files[CsvPath(w)] # 0
  /\ ret' = [ret EXCEPT !.wpc[w] = "parquet",
                        !.files[parquet_path(w)] = ret.files[CsvPath(w)],
                        !.touched = Touch(w, {CsvPath(w), parquet_path(w)})]
  /\ UNCHANGED <<args, pipeline>>

\* the text is gone: csv_path.stat() raises FileNotFoundError
WorkerConvertFail(w) ==
  /\ Running(w, "csv")
  /\ ret.files[CsvPath(w)] = 0
  /\ ret' = [ret EXCEPT !.wpc[w] = "failed"]
  /\ UNCHANGED <<args, pipeline>>

\* the text, if it exists, and the archive file are deleted
WorkerCleanup(w) ==
  /\ Running(w, "parquet")
  /\ ret' = [ret EXCEPT !.wpc[w] = "done",
                        !.files[CsvPath(w)] = 0,
                        !.files[zip_path(w)] = 0,
                        !.touched = IF ret.files[CsvPath(w)] # 0
                                    THEN Touch(w, {zip_path(w), CsvPath(w)})
                                    ELSE Touch(w, {zip_path(w)})]
  /\ UNCHANGED <<args, pipeline>>

WorkersNext ==
  \/ StartWorkers
  \/ \E w \in Workers :
       \/ WorkerDownload(w)
       \/ WorkerRename(w)
       \/ WorkerUnlinkOld(w)
       \/ WorkerExtract(w)
       \/ WorkerConvert(w)
       \/ WorkerConvertFail(w)
       \/ WorkerCleanup(w)

WorkersSpec == WorkersInit /\ [][WorkersNext]_vars

\* ------------------------------------------------- main: printed lines
\* the lines about an archive's outcome: "[SKIP] Ja existe Parquet para
\* <zip_name>", "[CONVERTENDO] ... -> <stem>.parquet" with its "-> OK em",
\* "[ERRO] Falha ao processar <zip_url>", and the last line of main
SkipLine(a) == [tag |-> "SKIP", name |-> ArchiveName(a)]
OkLine(a) == [tag |-> "OK", name |-> ArchiveName(a)]
ErrorLineAnonymous(a) == [tag |-> "ERRO", name |-> <<>>]
ErrorLine(a) == [tag |-> "ERRO", name |-> Url(a)]
FinalLine == [tag |-> "Finalizado", name |-> <<>>]

\* the conversion of archive a was completed in this run: "-> OK" is
\* printed before the cleanup, which can still fail
Converted(a) ==
  \/ status[a] = "Done"
  \/ status[a] = "Failed" /\ IsComplete(a, parquetFile[a])
  \/ pc = "loop" /\ ppc = "cleanup" /\ a = Cur

\* the outcome lines the current run has printed so far
Printed ==
  {SkipLine(a) : a \in {b \in Archives : status[b] = "Skipped"}}
    \cup {OkLine(a) : a \in {b \in Archives : Converted(b)}}
    \cup {ErrorLine(a) : a \in {b \in Archives : status[b] = "Failed"}}
    \cup (IF pc = "finished" THEN {FinalLine} ELSE {})

\* the tags of the lines printed about archive a
Tags(a) ==
  {l.tag : l \in {k \in Printed : k.name \in {ArchiveName(a), Url(a)}}}

\* ------------------------------------- process_one_zip: the two scripts
\* one call of process_one_zip, in cnpj_ingest_duckdb.py and in
\* cnpj_ingest_duckdb_v2.py, as a function of what is on disk and of the
\* outcome of each stage: the actions performed in order, the outcome, the
\* files left.  "partial" is an artifact a failed conversion left behind
ZipStates == {"absent", "ok", "bad_member", "BadZipFile", "error"}
FetchOutcomes == {"ok", "refused", "broken"}
ConvertOutcomes == {"ok", "empty", "broken"}

Worlds ==
  [artifact : BOOLEAN, zip : ZipStates, part : BOOLEAN,
   fetch : FetchOutcomes, extract : BOOLEAN, convert : ConvertOutcomes,
   keep_zip : BOOLEAN, keep_csv : BOOLEAN]

FilesOf(w) ==
  (IF w.artifact THEN {"parquet"} ELSE {})
    \cup (IF w.zip # "absent" THEN {"zip"} ELSE {})
    \cup (IF w.part THEN {"part"} ELSE {})

\* download_file (the same in both scripts): the request is refused before
\* ".part" is opened, the body breaks with ".part" written, or ".part" is
\* renamed to the archive file
download_file(files, outcome) ==
  CASE outcome = "ok" -> (files \ {"part"}) \cup {"zip"}
    [] outcome = "refused" -> files
    [] outcome = "broken" -> files \cup {"part"}

\* the end of a call: what it did, how it ended, what it left
Ended(actions, outcome, files) ==
  [actions |-> actions, outcome |-> outcome, files |-> files]

\* cnpj_ingest_duckdb.py, "4) limpeza"
cleanup_keeps_csv(w, actions, files) ==
  Ended(actions \o (IF ~w.keep_zip THEN <<"delete_zip">> ELSE <<>>), "Done",
        files \ (IF ~w.keep_zip THEN {"zip"} ELSE {}))
cleanup_v1(w, actions, files) ==
  LET a1 == IF ~w.keep_csv /\ "csv" \in files THEN <<"delete_csv">> ELSE <<>>
      f1 == IF ~w.keep_csv THEN files \ {"csv"} ELSE files
      a2 == IF ~w.keep_zip /\ "zip" \in f1 THEN <<"delete_zip">> ELSE <<>>
      f2 == IF ~w.keep_zip THEN f1 \ {"zip"} ELSE f1
  IN Ended(actions \o a1 \o a2, "Done", f2)

\* cnpj_ingest_duckdb.py, "2) unzip" and "3) csv -> parquet"
convert_v1(w, actions, files) ==
  IF ~w.extract THEN Ended(actions \o <<"extract">>, "Failed", files)
  ELSE
    LET a == actions \o <<"extract", "convert">>
        f == files \cup {"csv"}
    IN CASE w.convert = "ok" -> cleanup_v1(w, a, f \cup {"parquet"})
         [] w.convert = "empty" -> Ended(a, "Failed", f)
         [] w.convert = "broken" -> Ended(a, "Failed", f \cup {"partial"})

\* cnpj_ingest_duckdb.py, unlink and "Rebaixando", or the first download
refetch_v1(w, actions, files) ==
  LET a == actions \o <<"fetch">>
      f == download_file(files, w.fetch)
  IN IF w.fetch = "ok" THEN convert_v1(w, a, f) ELSE Ended(a, "Failed", f)

\* process_one_zip of cnpj_ingest_duckdb.py
process_one_zip_v1(w) ==
  IF w.artifact THEN Ended(<<>>, "Done", FilesOf(w))
  ELSE IF w.zip = "absent" THEN refetch_v1(w, <<>>, FilesOf(w))
  ELSE IF w.zip = "ok" THEN convert_v1(w, <<"testzip">>, FilesOf(w))
  ELSE IF w.zip \in {"bad_member", "BadZipFile"}
  THEN refetch_v1(w, <<"testzip", "delete_zip">>, FilesOf(w) \ {"zip"})
  ELSE Ended(<<"testzip">>, "Failed", FilesOf(w))

\* cnpj_ingest_duckdb_v2.py, "limpeza"
cleanup(w, actions, files) ==
  LET a1 == IF ~w.keep_csv /\ "csv" \in files THEN <<"delete_csv">> ELSE <<>>
      f1 == IF ~w.keep_csv THEN files \ {"csv"} ELSE files
      a2 == IF ~w.keep_zip /\ "zip" \in f1 THEN <<"delete_zip">> ELSE <<>>
      f2 == IF ~w.keep_zip THEN f1 \ {"zip"} ELSE f1
  IN Ended(actions \o a1 \o a2, "Done", f2)

\* cnpj_ingest_duckdb_v2.py, "unzip" and "csv -> parquet"
convert(w, actions, files) ==
  IF ~w.extract THEN Ended(actions \o <<"extract">>, "Failed", files)
  ELSE
    LET a == actions \o <<"extract", "convert">>
        f == files \cup {"csv"}
    IN CASE w.convert = "ok" -> cleanup(w, a, f \cup {"parquet"})
         [] w.convert = "empty" -> Ended(a, "Failed", f)
         [] w.convert = "broken" -> Ended(a, "Failed", f \cup {"partial"})

\* cnpj_ingest_duckdb_v2.py, unlink and "Rebaixando", or the first download
refetch(w, actions, files) ==
  LET a == actions \o <<"fetch">>
      f == download_file(files, w.fetch)
  IN IF w.fetch = "ok" THEN convert(w, a, f) ELSE Ended(a, "Failed", f)

\* process_one_zip of cnpj_ingest_duckdb_v2.py
process_one_zip(w) ==
  IF w.artifact THEN Ended(<<>>, "Done", FilesOf(w))
  ELSE IF w.zip = "absent" THEN refetch(w, <<>>, FilesOf(w))
  ELSE IF w.zip = "ok" THEN convert(w, <<"testzip">>, FilesOf(w))
  ELSE IF w.zip \in {"bad_member", "BadZipFile"}
  THEN refetch(w, <<"testzip", "delete_zip">>, FilesOf(w) \ {"zip"})
  ELSE Ended(<<"testzip">>, "Failed", FilesOf(w))

OrchInit ==
  /\ Standalone
  /\ args \in {[fn |-> "process_one_zip_both", world |-> w] : w \in Worlds}

CallBoth ==
  /\ args.fn = "process_one_zip_both"
  /\ ret = Pending
  /\ ret' = Returned([v1 |-> process_one_zip_v1(args.world),
                      v2 |-> process_one_zip(args.world)])
  /\ UNCHANGED <<args, pipeline>>

OrchSpec == OrchInit /\ [][CallBoth]_vars

\* ----------------------------------------------- renomear_colunas.unique
\* names given to unique: empty, plain, and of the form <name>_<k>
UniqueNames ==
  {<<>>, <<"a">>, <<"a", "_", "2">>, <<"col">>, <<"col", "_", "2">>, <<"b">>}

NameLists == UNION {[1..n -> UniqueNames] : n \in 0..MaxList}

\* the loop of unique from position i on: seen counts the occurrences of
\* each input name so far, out is the list built so far
RECURSIVE UniqueFrom(_, _, _, _)
UniqueFrom(names, i, seen, out) ==
  IF i > Len(names) THEN out
  ELSE LET n == IF names[i] = <<>> THEN <<"col">> ELSE names[i]
       IN IF seen[n] = 0
          THEN UniqueFrom(names, i + 1, [seen EXCEPT ![n] = 1], Append(out, n))
          ELSE UniqueFrom(names, i + 1, [seen EXCEPT ![n] = @ + 1],
                          Append(out, n \o <<"_">> \o Decimal(seen[n] + 1)))

unique(names) ==
  UniqueFrom(names, 1, [n \in UniqueNames \cup {<<"col">>} |-> 0], <<>>)

UniqueInit ==
  /\ Standalone
  /\ args \in {[fn |-> "unique", names |-> ns] : ns \in NameLists}

CallUnique ==
  /\ args.fn = "unique"
  /\ ret = Pending
  /\ ret' = Returned(unique(args.names))
  /\ UNCHANGED <<args, pipeline>>

UniqueSpec == UniqueInit /\ [][CallUnique]_vars

\* ------------------------------------------------------------------ stages
\* the stage of archive a in the current run, from the position of
\* process_one_zip: [BAIXANDO]/integrity check, [EXTRAINDO], [CONVERTENDO]
StageOf(a) ==
  IF pc = "loop" /\ Cur = a
  THEN CASE ppc = "start" -> "Pending"
         [] ppc \in {"testzip", "dl_request", "dl_body"} -> "Fetching"
         [] ppc = "unzip" -> "Extracting"
         [] ppc \in {"convert", "cleanup"} -> "Converting"
  ELSE IF status[a] = "Skipped" THEN "Done" ELSE status[a]

\* download_file is running for archive a
InDownload(a) == pc = "loop" /\ Cur = a /\ ppc \in {"dl_request", "dl_body"}

\* a step of the running program (not a kill, not between runs)
ProgramStep == pc = "loop" /\ pc' \in {"loop", "finished"}

\* ------------------------------------------------------------------ claims

\* C1: when process_one_zip starts on an archive whose Parquet exists, the
\* archive goes straight from Pending to Done (skipped): no request is made
\* and no file of the working or output directory is created, changed or
\* deleted.
C1_IdempotentSkip ==
  [][\A a \in Archives :
       (ProgramStep /\ Cur = a /\ ppc = "start" /\ parquetFile[a].exists)
       => /\ status'[a] = "Skipped"
          /\ StageOf(a) = "Pending" /\ StageOf(a)' = "Done"
          /\ fs' = fs
          /\ netReqs' = netReqs]_vars

C1_Witness ==
  \E a \in Archives : status[a] = "Skipped" /\ zipFile[a].exists

\* C2: whatever stages fail, the loop of main attempts every archive of
\* the list exactly once, in list order, and the run reaches "finished"; a
\* failed archive does not stop the next one from being attempted.
C2_FailureIsolation ==
  /\ [](pc \in {"loop", "finished"} =>
          /\ Len(attempted) <= Len(zips)
          /\ attempted = SubSeq(zips, 1, Len(attempted))
          /\ \A i \in 1..Len(attempted) : \A j \in 1..Len(attempted) :
               attempted[i] = attempted[j] => i = j)
  /\ [](pc = "loop" =>
          <>(/\ pc = "finished"
             /\ attempted = zips
             /\ \A i \in 1..Len(zips) : status[zips[i]] # "Pending"))

C2_Witness ==
  /\ pc = "finished"
  /\ \E i \in 1..(Len(zips) - 1) :
       status[zips[i]] = "Failed" /\ status[zips[i + 1]] = "Done"

\* C3 (as claimed): a partially written Parquet is never trusted: the
\* existence check of a later run does not skip an archive whose artifact
\* misses batches or was never closed.
C3_PartialNeverTrusted ==
  \A a \in Archives :
    status[a] = "Skipped" => IsComplete(a, parquetFile[a])

\* C4: the final archive path comes into existence only by the rename of
\* download_file, after the whole response body was written to .part; while
\* download_file runs, and when it fails or is killed before the rename, the
\* final path does not exist and .part keeps the bytes written so far.
C4_NoPartialAsFinal ==
  /\ [](\A a \in Archives : InDownload(a) => ~zipFile[a].exists)
  /\ [][\A a \in Archives :
          (~zipFile[a].exists /\ zipFile'[a].exists)
          => /\ InDownload(a) /\ ppc = "dl_body" /\ body = <<>>
             /\ zipFile'[a].bytes = partFile[a].bytes
             /\ ~partFile'[a].exists]_vars
  /\ [][\A a \in Archives :
          (InDownload(a) /\ ~InDownload(a)' /\ ~zipFile'[a].exists)
          => partFile'[a] = partFile[a]]_vars

C4_Witness ==
  \E a \in Archives :
    /\ status[a] = "Failed"
    /\ partFile[a].exists /\ Len(partFile[a].bytes) > 0
    /\ ~zipFile[a].exists

\* C5: with a server that honours Range, a download that resumes a .part
\* holding any proper prefix of the stream asks for the bytes from that
\* offset, appends them, and ends with the final file equal to the stream.
C5_ResumeCorrect ==
  /\ [](rangeOk /\ pc = "loop" /\ ppc = "dl_body" =>
          partFile[Cur].bytes \o body = RemoteBytes(Cur))
  /\ [][\A a \in Archives :
          (rangeOk /\ ~zipFile[a].exists /\ zipFile'[a].exists)
          => zipFile'[a].bytes = RemoteBytes(a)]_vars

C5_Witness ==
  /\ rangeOk
  /\ pc = "loop" /\ ppc = "unzip"
  /\ downloaded > 0
  /\ zipFile[Cur].bytes = RemoteBytes(Cur)

\* C6 (as claimed): with a server that ignores Range, the fetch falls back
\* to a full re-fetch: a completed archive file equals the remote stream,
\* never an old prefix followed by the whole body.
C6_RangeFallback ==
  [][\A a \in Archives :
       (~rangeOk /\ ~zipFile[a].exists /\ zipFile'[a].exists)
       => zipFile'[a].bytes = RemoteBytes(a)]_vars

\* C7 (as claimed): an archive on disk that fails the integrity check is
\* deleted and fetched again in the same run; the integrity failure alone
\* does not fail the archive.
C7_IntegrityGate ==
  [][\A a \in Archives :
       (/\ ProgramStep /\ Cur = a /\ ppc = "testzip"
        /\ Integrity(a, zipFile[a].bytes) # "ok")
       => /\ ~zipFile'[a].exists
          /\ InDownload(a)'
          /\ status'[a] # "Failed"]_vars

\* C8: an archive on disk that passes the integrity check is not fetched:
\* process_one_zip goes on to the extraction with no request issued and the
\* bytes of the archive unchanged.
C8_FetchNoOp ==
  [][\A a \in Archives :
       (/\ ProgramStep /\ Cur = a /\ ppc = "testzip"
        /\ Integrity(a, zipFile[a].bytes) = "ok")
       => /\ pc' = "loop" /\ Cur' = a /\ ppc' = "unzip"
          /\ zipFile'[a] = zipFile[a]
          /\ netReqs' = netReqs]_vars

C8_Witness ==
  /\ pc = "loop" /\ ppc = "unzip"
  /\ netReqs = 1
  /\ zipFile[Cur].bytes = RemoteBytes(Cur)

\* C9 (as claimed): a Normalizing stage lies between Extracting and
\* Converting: an archive enters Converting only from Normalizing.
C9_NormalizingStage ==
  [][\A a \in Archives :
       (ProgramStep /\ StageOf(a) # "Converting" /\ StageOf(a)' = "Converting")
       => StageOf(a) = "Normalizing"]_vars

\* C9 (amended): an archive that is not skipped moves through Fetching,
\* Extracting, Converting, Done in that order, each stage starting only when
\* the one before has completed, or to Failed from the stage that failed;
\* there is no Normalizing stage.
StageOrder ==
  {<<"Pending", "Fetching">>, <<"Fetching", "Extracting">>,
   <<"Extracting", "Converting">>, <<"Converting", "Done">>,
   <<"Fetching", "Failed">>, <<"Extracting", "Failed">>,
   <<"Converting", "Failed">>}

C9_StageOrder ==
  [][\A a \in Archives :
       (ProgramStep /\ StageOf(a)' # StageOf(a))
       => \/ <<StageOf(a), StageOf(a)'>> \in StageOrder
          \/ /\ StageOf(a) = "Pending" /\ StageOf(a)' = "Done"
             /\ status'[a] = "Skipped"]_vars

C9_Witness ==
  \E a \in Archives :
    /\ status[a] = "Done"
    /\ IsComplete(a, parquetFile[a])

\* C10 (as claimed): a second run after a run in which every archive
\* reached Done performs no network request at all.
C10_ZeroNetwork == prevAllDone => netReqs = 0

\* C10 (amended): a second run after a run in which every archive reached
\* Done leaves every artifact unchanged and issues exactly one network
\* request, the listing fetch of list_zip_links; no archive is downloaded
\* and every archive is skipped.
C10_SecondRun ==
  /\ [](prevAllDone => netReqs <= 1)
  /\ [](prevAllDone /\ pc \in {"loop", "finished"} => netReqs = 1)
  /\ [](prevAllDone /\ pc = "finished" =>
          \A a \in Archives : status[a] = "Skipped")
  /\ [][prevAllDone => parquetFile' = parquetFile]_vars

C10_Witness ==
  /\ prevAllDone
  /\ pc = "finished"
  /\ netReqs = 1

\* C11 (as stated): only a discovery failure ends a run by an exception;
\* main is never left by any other exception.
C11_OnlyDiscoveryAborts == pc # "crashed"

\* C11 (amended): a run is ended by an exception only before the loop over
\* the archives (directory creation, discovery, compiling the filter); an
\* exception raised while an archive is processed marks it Failed and the
\* loop moves to the next archive of the list, or to the end of the run.
C11_AbortsOnlyBeforeLoop ==
  /\ [][(pc' \in {"aborted", "crashed"} /\ pc' # pc) => pc = "list"]_vars
  /\ [][(pc = "loop" /\ status[Cur] # "Failed" /\ status'[Cur] = "Failed") =>
          /\ idx' = idx + 1
          /\ IF idx < Len(zips)
             THEN pc' = "loop" /\ attempted' = Append(attempted, zips[idx + 1])
             ELSE pc' = "finished"]_vars

C11_Witness ==
  /\ filter # <<>>
  /\ pc = "loop"
  /\ idx > 1
  /\ status[zips[idx - 1]] = "Failed"
  /\ ppc = "dl_body"

\* C13: the archives main processes are the sorted listing restricted to
\* the archives whose name matches the filter, then truncated to the first
\* `limit` entries.
FilterByName(zs, f) ==
  IF f = <<>> THEN zs ELSE SelectSeq(zs, LAMBDA a : Search(f, ArchiveName(a)))

C13_SelectionByName ==
  /\ pc \in {"loop", "finished"} =>
       zips = LimitZips(FilterByName(Listing, filter), limit)
  /\ pc = "exited" => FilterByName(Listing, filter) = <<>>
  /\ FilterByName(Listing, filter) = <<>> => pc \notin {"loop", "finished"}

\* C12: for every listing body, list_zip_links returns exactly the archive
\* references found in it, without duplicates and in ascending
\* lexicographic order; it raises, and returns no list, when the fetch
\* fails or no archive reference is found.
C12_Discovery ==
  (args.fn = "list_zip_links" /\ ret # Pending) =>
    LET found == {urljoin(BaseUrl, args.text[i]) :
                    i \in {j \in 1..Len(args.text) : ZipPattern(args.text[j])}}
    IN IF ~args.ok \/ found = {}
       THEN ret.state = "raised"
       ELSE /\ ret.state = "returned"
            /\ {ret.value[i] : i \in 1..Len(ret.value)} = found
            /\ \A i \in 1..Len(ret.value) : \A j \in 1..Len(ret.value) :
                 i < j => LexLess(ret.value[i], ret.value[j])

C12_Witness ==
  /\ args.fn = "list_zip_links"
  /\ ret.state = "returned"
  /\ Len(ret.value) = 2
  /\ Len(args.text) = 3
  /\ \A i \in 1..3 : ZipPattern(args.text[i])
  /\ args.text[1] # args.text[3]
  /\ urljoin(BaseUrl, args.text[1]) = ret.value[2]
  /\ urljoin(BaseUrl, args.text[3]) = ret.value[2]

\* C14: from a non-empty namelist exactly one member is extracted: the
\* first, in listing order, of the first non-empty set among the members
\* with a delimited-text suffix, the members containing "csv", the largest
\* members; an empty namelist raises.
C14_MemberSelection ==
  (args.fn = "unzip_single_csv" /\ ret # Pending) =>
    LET ns == args.names
        S1 == {i \in 1..Len(ns) : HasTextSuffix(ns[i])}
        S2 == {i \in 1..Len(ns) : ContainsCsv(ns[i])}
        S3 == {i \in 1..Len(ns) : \A j \in 1..Len(ns) : ns[j].size <= ns[i].size}
        S == IF S1 # {} THEN S1 ELSE IF S2 # {} THEN S2 ELSE S3
    IN IF ns = <<>> THEN ret = Raised("RuntimeError")
       ELSE /\ ret.state = "returned"
            /\ ret.value.member \in S
            /\ \A i \in S : ret.value.member <= i
            /\ Cardinality(ret.value.files) = 1
            /\ ret.value.out_path.name \in
                 {ns[ret.value.member].name,
                  ns[ret.value.member].name \o <<".", "csv">>}

C14_Witness ==
  /\ args.fn = "unzip_single_csv"
  /\ ret.state = "returned"
  /\ Len(args.names) = 2
  /\ ~HasTextSuffix(args.names[1])
  /\ ~HasTextSuffix(args.names[2])
  /\ ContainsCsv(args.names[1]) /\ ContainsCsv(args.names[2])
  /\ args.names[1].size < args.names[2].size
  /\ ret.value.member = 1

\* C15: for every member name the path returned ends in ".csv", lies in the
\* root of the extraction directory, names a file that exists on return,
\* and no directory created by the extraction remains.
C15_ExtractionResult ==
  (args.fn = "unzip_single_csv" /\ ret.state = "returned") =>
    /\ endswith(lower(ret.value.out_path.name), <<".", "csv">>)
    /\ ret.value.out_path.depth = 0
    /\ ret.value.out_path \in ret.value.files
    /\ ret.value.dirs = {}

\* C16: when the detected table has a fixed list whose length equals the
\* observed column count, the schema is that list, header row or not; the
\* header row is used only otherwise, positional names only when neither
\* applies.
C16_SchemaPrecedence ==
  (args.fn = "csv_to_parquet" /\ ret.state = "returned") =>
    LET v == ret.value
        n == Len(args.first_row)
        fixed == ColsGet(v.base)
    IN IF fixed # <<>> /\ Len(fixed) = n THEN v.columns = fixed
       ELSE IF v.header_present THEN v.columns = args.first_row
       ELSE /\ Len(v.columns) = n
            /\ \A i \in 1..n : SubSeq(v.columns[i], 1, 2) = <<"col", "_">>

C16_Witness ==
  /\ args.fn = "csv_to_parquet"
  /\ ret.state = "returned"
  /\ ret.value.base = "socios"
  /\ ret.value.header_present
  /\ ret.value.columns = COLS.socios
  /\ args.first_row # COLS.socios

\* C17: for an unrecognized table and a text without header row and with n
\* columns, the names are col_00, col_01, ..., col_(n-1) in that order,
\* all different.
C17_FallbackNaming ==
  (/\ args.fn = "csv_to_parquet" /\ ret.state = "returned"
   /\ ret.value.base = "" /\ ~ret.value.header_present) =>
    LET c == ret.value.columns
    IN /\ Len(c) = Len(args.first_row)
       /\ \A i \in 1..Len(c) :
            c[i] = <<"col", "_", ToString((i - 1) \div 10),
                     ToString((i - 1) % 10)>>
       /\ \A i \in 1..Len(c) : \A j \in 1..Len(c) : c[i] = c[j] => i = j

C17_Witness ==
  /\ args.fn = "csv_to_parquet"
  /\ ret.state = "returned"
  /\ ret.value.base = ""
  /\ ~ret.value.header_present
  /\ Len(ret.value.columns) > 10

\* a name in canonical form: normalising it changes nothing
Canonical(name) == name # <<>> /\ to_sql_name(name) = name

C20_KindOfArchiveName ==
  (args.fn = "csv_to_parquet" /\ ret.state = "returned") =>
    ret.value.base = detect_base_from_filename(args.stem)

\* C20 (amended): the table is computed from the name of the extracted
\* text: the table of the first entry one of whose keywords occurs in the
\* lowercased name, "" when there is none; the same value is the one the
\* schema resolver is called with.
C20_KindOfTextName ==
  (args.fn = "csv_to_parquet" /\ ret.state = "returned") =>
    LET n == lower(args.csv_name)
        hits == {e \in 1..Len(DETECT_MAP) :
                   \E k \in 1..Len(DETECT_MAP[e].keys) :
                     Occurs(DETECT_MAP[e].keys[k], n)}
    IN /\ IF hits = {} THEN ret.value.base = ""
          ELSE \E e \in hits : /\ \A f \in hits : e <= f
                                /\ ret.value.base = DETECT_MAP[e].base
       /\ ret.value.decided =
            choose_column_names(ret.value.base, Len(args.first_row),
                                ret.value.header_present)

C20_Witness ==
  /\ args.fn = "csv_to_parquet"
  /\ ret.state = "returned"
  /\ args.csv_name = <<"EMPRECSV", ".", "csv">>
  /\ args.stem = <<"x">>
  /\ ret.value.base = "empresas"

\* C18: for every list of names, unique returns a list of the same length
\* in which no name occurs twice.
C18_UniqueNames ==
  (args.fn = "unique" /\ ret.state = "returned") =>
    /\ Len(ret.value) = Len(args.names)
    /\ \A i \in 1..Len(ret.value) : \A j \in 1..Len(ret.value) :
         ret.value[i] = ret.value[j] => i = j

\* C21: two artifacts of archives of the same kind carry the same column
\* names: the artifact of any text extracted from an archive Empresas*
\* has the names of the artifact of the text EMPRECSV with one row of
\* numbers, as many as the fixed list has names.
C21_SchemaStablePerKind ==
  (args.fn = "csv_to_parquet" /\ ret.state = "returned"
   /\ args.stem = <<"Empresas">>) =>
    ret.value.columns =
      csv_to_parquet(<<"EMPRECSV", ".", "csv">>,
                     FirstRow(<<>>, Len(COLS.empresas))).value.columns

\* C30: looks_like_header is true exactly for a first line with the
\* delimiter and at least one alphabetic character; a line of digits,
\* delimiters, underscores and other symbols is never a header.
C30_HeaderRule ==
  (args.fn = "csv_to_parquet" /\ ret.state = "returned") =>
    (ret.value.header_present <=>
       /\ Len(args.first_row) > 1
       /\ \E i \in 1..Len(args.first_row) : \E j \in 1..Len(args.first_row[i]) :
            args.first_row[i][j] \notin DigitPieces \cup Seps)

\* the field counts of the data rows of the text of a call: every line
\* but a header row
DataRows ==
  IF args.is_header THEN args.more ELSE <<Len(args.first_row)>> \o args.more

\* C22: for a source resolved to n columns, every row whose field count
\* differs from n is left out with one warning, every other row is kept.
C22_MalformedRowsSkipped ==
  (/\ args.fn = "csv_to_parquet_rows" /\ ret.state = "returned"
   /\ ret.value.header_row = args.is_header) =>
    LET n == Len(ret.value.columns)
        bad == Len(SelectSeq(DataRows, LAMBDA k : k # n))
    IN /\ ret.value.rows = Len(DataRows) - bad
       /\ ret.value.warnings = bad

C24_TextLayout ==
  (args.fn = "write_batches" /\ ret # Pending) =>
    /\ ret.state = "returned"
    /\ \A c \in DOMAIN ret.value.schema : ret.value.schema[c] = "string"
    /\ ret.value.written = Len(args.batches)

\* C25: ensure_utf8 on a text that is valid UTF-8 throughout returns the
\* same path and creates no file; on a text in latin1 it returns a file whose
\* decoding as UTF-8 gives the characters of the text (first run: no file
\* of an earlier run exists).
C25_EncodingRoundTrip ==
  (args.fn = "ensure_utf8" /\ ret.state = "returned" /\ ~ret.value.reused) =>
    /\ args.encoding = "utf-8" =>
         (ret.value.path = "src" /\ ~ret.value.created)
    /\ args.encoding = "latin1" =>
         /\ Utf8Decode(ReturnedBytes).ok
         /\ Utf8Decode(ReturnedBytes).text = Latin1Decode(args.src)

\* C26: the file ensure_utf8 returns is valid UTF-8 from its first to its
\* last byte, for every input.
C26_OutputCanonical ==
  (args.fn = "ensure_utf8" /\ ret.state = "returned") =>
    Utf8Decode(ReturnedBytes).ok

\* C27: in every sequence of runs, interrupted ones included, the file
\* ensure_utf8 returns holds the whole text of the source: its bytes, or
\* its complete transcoding.
C27_NeverTruncated ==
  (args.fn = "ensure_utf8" /\ ret.state = "returned") =>
    \/ ReturnedBytes = args.src
    \/ ReturnedBytes = Utf8Encode(Latin1Decode(args.src))

\* the paths both workers touched
TouchedByBoth == ret.touched[1] \cap ret.touched[2]

Selected == {zips[i] : i \in 1..Len(zips)}

\* C29 as stated: at the end of every run a summary is printed that gives
\* the archives completed, skipped and failed, three disjoint groups that
\* together are the archives selected, the failed ones identified.
C29_FinalSummary ==
  pc = "finished" =>
    \E l \in Printed :
      /\ l.tag = "summary"
      /\ \A a \in Archives : a \in Selected <=> Tags(a) # {}
      /\ \A a \in Selected : Cardinality(Tags(a)) = 1

\* C29 amended: main prints no summary, its last line is "[OK] Finalizado."
\* alone.  The outcomes are printed archive by archive: at the end of the
\* loop every selected archive, and no other, has a line; a skipped archive
\* has its [SKIP] line only; an archive has an [ERRO] line, which carries
\* its URL, exactly when its processing raised, also after its "-> OK".
C29_OutcomePerArchive ==
  /\ \A l \in Printed : l.tag \in {"SKIP", "OK", "ERRO", "Finalizado"}
  /\ \A a \in Archives :
       /\ "SKIP" \in Tags(a) => Tags(a) = {"SKIP"}
       /\ status[a] = "Failed" <=> "ERRO" \in Tags(a)
       /\ status[a] = "Failed" => ErrorLine(a) \in Printed /\ ErrorLine(a).name = Url(a)
       /\ status[a] = "Done" => Tags(a) = {"OK"}
  /\ pc = "finished" =>
       /\ FinalLine \in Printed
       /\ \A a \in Archives : a \in Selected <=> Tags(a) # {}

\* a run ended with an archive skipped, an archive failed in its cleanup
\* after its "-> OK", and the final line
C29_Witness ==
  /\ pc = "finished"
  /\ \E a, b \in Selected :
       /\ Tags(a) = {"OK", "ERRO"}
       /\ Tags(b) = {"SKIP"}

\* a step deletes the archive file, the extracted text, of archive a
ZipDeleted(a) == zipFile[a].exists /\ ~zipFile'[a].exists
CsvDeleted(a) == csvFile[a] /\ ~csvFile'[a]

\* C31 as stated: the archive file and the extracted text are deleted only
\* after the conversion has completed, in a step that ends the archive in
\* Done, and only when the keep flag is not set; with a keep flag set the
\* file exists when the archive is Done.
C31_Retention ==
  /\ [][\A a \in Archives :
          (ZipDeleted(a) \/ CsvDeleted(a))
          => /\ pc = "loop" /\ Cur = a /\ ppc = "cleanup"
             /\ status'[a] = "Done"]_vars
  /\ [][\A a \in Archives :
          /\ ZipDeleted(a) => ~keep_zip
          /\ CsvDeleted(a) => ~keep_csv]_vars
  /\ [](\A a \in Archives :
          status[a] = "Done" =>
            /\ keep_zip => zipFile[a].exists
            /\ keep_csv => csvFile[a])

\* C31 amended: the cleanup deletes the archive file and the text only after
\* the conversion has completed and only without the keep flag, and with a
\* keep flag set the file exists when the archive is Done; besides the
\* cleanup, the integrity check deletes an archive file it rejects and the
\* extraction deletes a text it found, both before the conversion and
\* whatever the keep flags, and a cleanup that fails on the archive file has
\* already deleted the text.
C31_RetentionRules ==
  /\ [][\A a \in Archives :
          ZipDeleted(a)
          => /\ pc = "loop" /\ Cur = a
             /\ \/ /\ ppc = "testzip"
                   /\ Integrity(a, zipFile[a].bytes) \in {"bad_member", "BadZipFile"}
                \/ /\ ppc = "cleanup"
                   /\ ~keep_zip
                   /\ IsComplete(a, parquetFile[a])
                   /\ status'[a] = "Done"]_vars
  /\ [][\A a \in Archives :
          CsvDeleted(a)
          => /\ pc = "loop" /\ Cur = a
             /\ \/ /\ ppc = "unzip"
                   /\ status'[a] = "Failed"
                \/ /\ ppc = "cleanup"
                   /\ ~keep_csv
                   /\ IsComplete(a, parquetFile[a])]_vars
  /\ [](\A a \in Archives :
          status[a] = "Done" =>
            /\ keep_zip => zipFile[a].exists
            /\ keep_csv => csvFile[a])

\* an archive is Done with its archive file kept and its text deleted
C31_Witness ==
  \E a \in Archives :
    /\ status[a] = "Done"
    /\ keep_zip /\ ~keep_csv
    /\ zipFile[a].exists /\ ~csvFile[a]

\* C32: an archive for which process_one_zip returned without raising,
\* skipped or converted, has its artifact on disk; a converted one has an
\* artifact that was written to and closed: a conversion that wrote no batch
\* does not end in Done.
C32_DoneImpliesArtifact ==
  /\ [](\A a \in Archives :
          /\ status[a] \in {"Done", "Skipped"} => parquetFile[a].exists
          /\ status[a] = "Done" =>
               parquetFile[a].rows >= 1 /\ parquetFile[a].closed)
  /\ [][\A a \in Archives :
          (status[a] # "Done" /\ status'[a] = "Done")
          => /\ pc = "loop" /\ ppc = "cleanup" /\ Cur = a
             /\ parquetFile[a].rows >= 1]_vars

\* a run in which one archive was skipped and another converted, the
\* artifacts of both on disk
C32_Witness ==
  \E a, b \in Archives :
    /\ status[a] = "Done" /\ parquetFile[a].rows >= 1
    /\ status[b] = "Skipped" /\ parquetFile[b].exists

\* process_one_zip has called download_file for the current archive
Fetched == ppc \in {"dl_body", "unzip", "convert", "cleanup"}

\* C33: download_file is called at most once per archive per run, on every
\* path of process_one_zip: a request for an archive is made from the
\* download step only, and once it is made the same archive never comes
\* back to the download in that run, neither after success nor after a
\* failure.
C33_OneFetchPerArchive ==
  /\ [][(ProgramStep /\ netReqs' # netReqs)
         => /\ ppc = "dl_request"
            /\ netReqs' = netReqs + 1
            /\ (pc' = "loop" /\ idx' = idx) => ppc' = "dl_body"]_vars
  /\ [][(pc = "loop" /\ Fetched /\ pc' = "loop" /\ idx' = idx)
         => Fetched' /\ netReqs' = netReqs]_vars
  /\ [][(pc = "loop" /\ pc' = "loop" /\ idx' # idx)
         => idx' = idx + 1 /\ ppc' = "start"]_vars
  /\ [](pc \in {"loop", "finished"} =>
          /\ netReqs <= 1 + Len(attempted)
          /\ \A i \in 1..Len(attempted) : \A j \in 1..Len(attempted) :
               attempted[i] = attempted[j] => i = j)

\* the one fetch of an archive failed in the body, and the run went on to
\* the next archive with no second request for it
C33_Witness ==
  /\ pc = "loop" /\ idx > 1
  /\ status[zips[idx - 1]] = "Failed"
  /\ ~zipFile[zips[idx - 1]].exists
  /\ partFile[zips[idx - 1]].exists
  /\ netReqs = 2

\* C34: a fetch was ended after every byte of the stream was written to the
\* ".part" file and before the rename.  When a later run, with a remote that
\* honours Range and a connection that does not fail, fetches the archive,
\* the fetch goes on to completion: the request does not fail the archive.
C34_RecoversAfterCrash ==
  [][\A a \in Archives :
       (/\ ProgramStep /\ Cur = a /\ ppc = "dl_request"
        /\ rangeOk /\ faults' = faults
        /\ ~zipFile[a].exists
        /\ partFile[a].exists /\ partFile[a].bytes = RemoteBytes(a))
       => /\ status'[a] # "Failed"
          /\ pc' = "loop" /\ Cur' = a /\ ppc' = "dl_body"]_vars

\* C35: the rows of the artifact are the well-formed data rows of the text:
\* a header line of the text is read as header, never written as a row, and
\* the first line of a text without header is read as a row, never taken as
\* header.
C35_RowConservation ==
  (args.fn = "csv_to_parquet_rows" /\ ret.state = "returned") =>
    /\ ret.value.header_row = args.is_header
    /\ ret.value.rows =
         Len(SelectSeq(DataRows, LAMBDA k : k = Len(args.first_row)))

\* C36: any two distinct archive references of the discovery list have
\* distinct stems, hence distinct artifact paths out_dir/<stem>.parquet.
C36_StemIsKey ==
  (args.fn = "list_zip_links" /\ ret.state = "returned") =>
    \A i \in 1..Len(ret.value) : \A j \in 1..Len(ret.value) :
      i # j => stem(zip_name(ret.value[i])) # stem(zip_name(ret.value[j]))

\* C37: from the same files on disk and with the same outcome of every
\* stage, process_one_zip of the two scripts performs the same actions in
\* the same order, ends in the same outcome and leaves the same files.
C37_SameOrchestration ==
  (args.fn = "process_one_zip_both" /\ ret.state = "returned") =>
    /\ ret.value.v1.actions = ret.value.v2.actions
    /\ ret.value.v1.outcome = ret.value.v2.outcome
    /\ ret.value.v1.files = ret.value.v2.files

\* an archive on disk with a bad member was deleted, fetched again,
\* extracted and converted, and the text deleted, by both scripts
C37_Witness ==
  /\ args.fn = "process_one_zip_both"
  /\ ret.state = "returned"
  /\ ret.value.v1.actions =
       <<"testzip", "delete_zip", "fetch", "extract", "convert", "delete_csv">>
  /\ ret.value.v2.outcome = "Done"
  /\ ret.value.v2.files = {"zip", "parquet"}

\* ------------------------------------------- renomear_colunas.main --inplace
\* the files of the source directory, by the table detectar_base finds in
\* their name: one that is skipped by default, one with a fixed list, none
RenBases == {"empresas", "cnaes", ""}

\* decidir_novos_nomes returns None: the file is skipped
Skips(base, include_ees) ==
  base \in {"empresas", "estabelecimentos", "simples"} /\ ~include_ees

RenameInit ==
  /\ Standalone
  /\ args \in {[fn |-> "renomear_colunas", bases |-> bs, include_e_e_s |-> inc] :
                 bs \in UNION {[1..n -> RenBases] : n \in 1..MaxList},
                 inc \in BOOLEAN}

\* the loop moves to the next file with the outcome o for file i
NextFile(o) ==
  [ret EXCEPT !.i = @ + 1, !.pc = "next", !.outcome[ret.i] = o]

InTry == ret.state = "running" /\ ret.pc = "try"
InReplace == ret.state = "running" /\ ret.pc = "replace"

\* tempfile.mkstemp next to the source file, before the try block: the
\* first one when main starts, the others as the loop reaches their file
Mkstemp ==
  /\ args.fn = "renomear_colunas"
  /\ \/ /\ ret = Pending
        /\ ret' = [state |-> "running", i |-> 1, pc |-> "try",
                   src |-> [k \in DOMAIN args.bases |-> "original"],
                   tmp |-> [k \in DOMAIN args.bases |->
                              IF k = 1 THEN "empty" ELSE "none"],
                   outcome |-> [k \in DOMAIN args.bases |-> "pending"]]
     \/ /\ ret.state = "running" /\ ret.pc = "next"
        /\ ret.i <= Len(args.bases)
        /\ ret' = [ret EXCEPT !.pc = "try", !.tmp[ret.i] = "empty"]
  /\ UNCHANGED <<args, pipeline>>

\* novos_nomes is None, in-place: "nao faz nada", continue
SkipFile ==
  /\ InTry
  /\ Skips(args.bases[ret.i], args.include_e_e_s)
  /\ ret' = NextFile("skipped")
  /\ UNCHANGED <<args, pipeline>>

\* renomear_parquet_streaming wrote every row group to the temporary file
RenameOk ==
  /\ InTry
  /\ ~Skips(args.bases[ret.i], args.include_e_e_s)
  /\ ret' = [ret EXCEPT !.pc = "replace", !.tmp[ret.i] = "complete"]
  /\ UNCHANGED <<args, pipeline>>

\* an exception in the try block (the source cannot be opened, a row group
\* cannot be read or written): the temporary file is removed
RenameFail ==
  /\ InTry
  /\ ret' = [NextFile("rename_failed") EXCEPT !.tmp[ret.i] = "none"]
  /\ UNCHANGED <<args, pipeline>>

\* os.replace(out_path, src_path)
ReplaceOk ==
  /\ InReplace
  /\ ret' = [NextFile("renamed") EXCEPT !.tmp[ret.i] = "none",
                                        !.src[ret.i] = "renamed"]
  /\ UNCHANGED <<args, pipeline>>

\* os.replace raises: the temporary file is removed
ReplaceFail ==
  /\ InReplace
  /\ ret' = [NextFile("replace_failed") EXCEPT !.tmp[ret.i] = "none"]
  /\ UNCHANGED <<args, pipeline>>

RenameNext ==
  \/ Mkstemp
  \/ SkipFile
  \/ RenameOk
  \/ RenameFail
  \/ ReplaceOk
  \/ ReplaceFail

RenameSpec == RenameInit /\ [][RenameNext]_vars

\* C38: with --inplace, whatever the outcome for a file (renamed, skipped,
\* rename failed, replace failed), the file afterwards holds its complete
\* original or its complete renamed content, and no temporary file made
\* for it is left in its directory.
C38_InplaceAtomic ==
  (args.fn = "renomear_colunas" /\ ret.state = "running") =>
    \A k \in DOMAIN args.bases :
      ret.outcome[k] # "pending" =>
        /\ ret.src[k] \in {"original", "renamed"}
        /\ ret.outcome[k] = "renamed" <=> ret.src[k] = "renamed"
        /\ ret.tmp[k] = "none"

\* ------------------------------------------- cnpj_ws.pesquisar_empresas
\* the answer to the request for one page: a status, the number of items
\* of "data", and "paginacao.paginas", which can be missing
NoPaginas == 0 - 1
ErrorResponse == [status |-> 500, items |-> 0, paginas |-> NoPaginas]
Responses ==
  {ErrorResponse}
    \cup [status : {200}, items : {0, 2},
          paginas : {NoPaginas} \cup 1..MaxPages]

\* the items of page p: item k of page p is <<p, k>>
ItemsOf(resp, p) == [k \in 1..resp.items |-> <<p, k>>]

\* body.get("paginacao", {}).get("paginas", pagina)
total_paginas_unbounded(resp, pagina) == pagina + 1
total_paginas(resp, pagina) ==
  IF resp.paginas = NoPaginas THEN pagina ELSE resp.paginas

\* the while loop from page pagina on: the pages requested and the results
RECURSIVE SearchLoop(_, _, _, _, _)
SearchLoop(server, max_paginas, pagina, requested, resultados) ==
  IF pagina > max_paginas
  THEN [requested |-> requested, resultados |-> resultados]
  ELSE
    LET resp == server[pagina]
        asked == Append(requested, pagina)
    IN IF resp.status # 200 \/ resp.items = 0
       THEN [requested |-> asked, resultados |-> resultados]
       ELSE IF pagina >= total_paginas(resp, pagina)
       THEN [requested |-> asked,
             resultados |-> resultados \o ItemsOf(resp, pagina)]
       ELSE SearchLoop(server, max_paginas, pagina + 1, asked,
                       resultados \o ItemsOf(resp, pagina))

\* pesquisar_empresas(filtros, max_paginas) against a server that answers
\* the request for page p with server[p]
pesquisar_empresas(server, max_paginas) ==
  Returned(SearchLoop(server, max_paginas, 1, <<>>, <<>>))

SearchInit ==
  /\ Standalone
  /\ args \in {[fn |-> "pesquisar_empresas", server |-> sv, max_paginas |-> m] :
                 sv \in [1..MaxPages -> Responses], m \in 1..MaxPages}

CallPesquisarEmpresas ==
  /\ args.fn = "pesquisar_empresas"
  /\ ret = Pending
  /\ ret' = pesquisar_empresas(args.server, args.max_paginas)
  /\ UNCHANGED <<args, pipeline>>

SearchSpec == SearchInit /\ [][CallPesquisarEmpresas]_vars

\* the response to page p is one of the three the claim stops at
StopsAsStated(p) ==
  LET resp == args.server[p]
  IN \/ resp.status # 200
     \/ resp.items = 0
     \/ resp.paginas # NoPaginas /\ p >= resp.paginas

\* the same, or the response names no number of pages
StopsAt(p) == StopsAsStated(p) \/ args.server[p].paginas = NoPaginas

\* the items of the pages 1..n that came with status 200, in page order
RECURSIVE ItemsUpTo(_)
ItemsUpTo(n) ==
  IF n = 0 THEN <<>>
  ELSE ItemsUpTo(n - 1) \o
         (IF args.server[n].status = 200 THEN ItemsOf(args.server[n], n)
          ELSE <<>>)

\* the last page asked for when the loop stops at the first page of 1..m
\* that satisfies Stop, or at m
LastAsked(Stop(_), m) ==
  IF \E p \in 1..m : Stop(p)
  THEN CHOOSE p \in 1..m : Stop(p) /\ \A q \in 1..(p - 1) : ~Stop(q)
  ELSE m

\* C39 as stated: pages 1, 2, 3, ... are requested in turn, none twice, at
\* most max_paginas of them, up to the first response that is not 200, has
\* no data, or is the last page the server reports; the results are the
\* items of the pages received, in page order.
C39_BoundedPagination ==
  (args.fn = "pesquisar_empresas" /\ ret.state = "returned") =>
    LET n == LastAsked(StopsAsStated, args.max_paginas)
    IN /\ ret.value.requested = [p \in 1..n |-> p]
       /\ ret.value.resultados = ItemsUpTo(n)

\* C39 amended: the same, and the loop also stops at a response that names
\* no number of pages.
C39_PaginationStops ==
  (args.fn = "pesquisar_empresas" /\ ret.state = "returned") =>
    LET n == LastAsked(StopsAt, args.max_paginas)
    IN /\ ret.value.requested = [p \in 1..n |-> p]
       /\ n <= args.max_paginas
       /\ ret.value.resultados = ItemsUpTo(n)

\* two pages were asked for of three allowed: the second is the last page
\* the server reports, and its items are in the results after the first's
C39_Witness ==
  /\ args.fn = "pesquisar_empresas"
  /\ ret.state = "returned"
  /\ args.max_paginas = 3
  /\ args.server[2].paginas = 2
  /\ ret.value.requested = <<1, 2>>
  /\ ret.value.resultados = <<<<1, 1>>, <<1, 2>>, <<2, 1>>, <<2, 2>>>>

====
